---- MODULE Spec2Model ----
(***************************************************************************)
(* Orchestration core of shoppyshops.shop: the event bus of ShoppyShop     *)
(* (on / emit), the periodic task scheduler (_task_scheduler), the         *)
(* Shopify webhook view (shopify_webhook) with the singleton start-up it   *)
(* drives (get_instance / initialize_services / _initialize_full), the     *)
(* event stream view (event_stream), the status view (service_status)     *)
(* and shutdown.                                                           *)
(*                                                                         *)
(* The parts are checked under specifications that share the variables:    *)
(* SpecBus, SpecTwin, SpecSched, SpecWebhook, SpecStream, SpecDeliveries,  *)
(* SpecFanout, SpecHooks, SpecOrders, SpecLife and SpecStatus.             *)
(***************************************************************************)
EXTENDS Integers, Sequences, FiniteSets, TLC

VARIABLES
    event_handlers,   \* ShoppyShop.event_handlers: kind -> list of handlers
    stack,            \* per coroutine chain: the frames of emit and of the handlers it awaits
    outcome,          \* per publisher: how its last emit call ended
    dup_on,           \* history: on() was called with a handler already registered
    tasks,            \* ShoppyShop.tasks: the list of Task objects (interval of each)
    last_run,         \* Task.last_run of each task (NoRun for None)
    is_running,       \* Task.is_running of each task
    now,              \* datetime.now(), in seconds
    loops,            \* each _task_scheduler coroutine: where it is suspended
    done_at,          \* history: when the last execution of each task returned or raised
    done_how,         \* history: how the last execution of each task ended
    skipped,          \* history: a loop found a due task running and did not start it
    instance,         \* ShoppyShop._instance is set
    initialized,      \* ShoppyShop._initialized
    default_handlers_registered,   \* ShoppyShop._default_handlers_registered
    lock,             \* ShoppyShop._lock: its holder and the coroutines waiting for it
    shopify,          \* the orchestrator's shopify attribute: unset, or where its adapter stands
    ebay,             \* the orchestrator's ebay attribute: unset, or where its adapter stands
    meta,             \* the orchestrator's meta attribute: unset, or where its adapter stands
    owner,            \* the _initialize_full call that awaits initialize() of the shopify attribute
    orphaned,         \* history: an adapter with an open client was replaced by a new one
    task_loop,        \* the orchestrator's task_loop attribute: none, or a scheduler coroutine
    instances_made,   \* history: how many ShoppyShop objects get_instance has constructed
    gi_attempts,      \* history: how many times get_instance has called _initialize_full
    handed_out,       \* history: get_instance has returned the instance to a caller
    down,             \* history: no start-up has succeeded since process start or the last shutdown
    req,              \* each webhook request: where shopify_webhook stands, its input, its answer
    conn,             \* each stream connection: where event_generator stands
    queue,            \* each stream connection: its asyncio.Queue of notifications
    sent,             \* history: what each stream connection has yielded to its client
    put,              \* history: what was put into each stream connection's queue
    emit_no,          \* history: the number of emit calls the publisher has made
    last_kind,        \* history: the kind of the publisher's last emit call
    listeners         \* history: the connections registered when the last emit call began

busVars == <<event_handlers, stack, outcome, dup_on>>

schedVars == <<tasks, last_run, is_running, now, loops, done_at, done_how, skipped>>

startVars == <<ebay, meta, owner, orphaned, instances_made, gi_attempts, handed_out,
               down>>

webVars == <<instance, initialized, default_handlers_registered, lock, shopify,
             task_loop, req, startVars>>

streamVars == <<conn, queue, sent, put, emit_no, last_kind, listeners>>

vars == <<busVars, schedVars, webVars, streamVars>>

----------------------------------------------------------------------------
(* Bounds of the model *)

\* Frames one coroutine chain may nest before the interpreter raises
\* RecursionError (sys.getrecursionlimit() in the real program).
RecursionLimit == 3

\* emit calls the publisher of the stream specification makes
MaxEmits == 1

\* The clock stops here
MaxTime == 4

\* Notifications put into the queue of one stream connection while orders arrive
MaxPut == 4

\* Task.interval ranges over PollSeconds + 1 .. MaxInterval
MaxInterval == 3

----------------------------------------------------------------------------
(* ServiceEvent *)

ORDER_CREATED == "order_created"

ORDER_UPDATED == "order_updated"

ERROR == "error"

ServiceEvent == {ORDER_CREATED, ORDER_UPDATED, ERROR}

----------------------------------------------------------------------------
(* Handlers.  Two caller-supplied handlers stand for the callables passed  *)
(* to on(): one declared with async def, one a plain function.  Each may   *)
(* return or raise an Exception whenever it is invoked.                    *)

AsyncStub == "h_async"

SyncStub == "h_sync"

StubHandlers == {AsyncStub, SyncStub}

NoHandler == "no_handler"

\* The bound method the orchestrator registers for ORDER_CREATED at start-up
DefaultHandler == "_handle_order_created"

\* The stream connections that may be open together
Conns == {"conn_a", "conn_b"}

\* The wrapper event_handler that register_handler makes for a connection and a
\* kind, known by the __name__ it is given
StreamHandler(c, event) == "notify_" \o event \o "_" \o c

StreamHandlers == {StreamHandler(c, event) : c \in Conns, event \in {ORDER_CREATED, ORDER_UPDATED, ERROR}}

\* The connection whose queue a wrapper handler puts into
ConnOf(h) == CHOOSE c \in Conns : \E event \in {ORDER_CREATED, ORDER_UPDATED, ERROR} : h = StreamHandler(c, event)

\* The kind a wrapper handler was made for
KindOf(h) == CHOOSE event \in {ORDER_CREATED, ORDER_UPDATED, ERROR} : \E c \in Conns : h = StreamHandler(c, event)

\* asyncio.iscoroutinefunction(handler)
IsCoroutineFunction(h) == h \in {AsyncStub, DefaultHandler} \cup StreamHandlers

\* getattr(handler, '__name__', str(handler))
HandlerName(h) ==
    CASE h = AsyncStub -> "notify_async"
      [] h = SyncStub -> "notify_sync"
      [] h = DefaultHandler -> "_handle_order_created"
      [] h \in StreamHandlers -> h
      [] OTHER -> "unnamed"

\* str(e) of the exception each caller-supplied handler raises when it fails
HandlerError(h) == IF h = AsyncStub THEN "boom" ELSE "bang"

\* str(e) of the interpreter's RecursionError
RecursionErrorText == "maximum recursion depth exceeded"

\* What one invocation of a caller-supplied handler does: return, or raise
HandlerOutcomes(h) == {"ok", HandlerError(h)}

\* The processes that own a coroutine chain
Publisher == "pub"

\* The webhook requests that may be in flight together
WebhookRequests == {"req_a", "req_b"}

Procs == {Publisher} \cup WebhookRequests

\* Payloads a publisher passes to emit
BusPayloads == {[tag |-> "payload"]}

----------------------------------------------------------------------------
(* Sequences *)

Range(s) == {s[i] : i \in 1..Len(s)}

IsPrefix(s, t) == Len(s) <= Len(t) /\ \A i \in 1..Len(s) : s[i] = t[i]

NoDuplicates(s) == \A i, j \in 1..Len(s) : s[i] = s[j] => i = j

Top(s) == s[Len(s)]

Pop(s) == SubSeq(s, 1, Len(s) - 1)

ReplaceTop(s, f) == [s EXCEPT ![Len(s)] = f]

----------------------------------------------------------------------------
(* Python values.  A JSON value is kept as its text; json.loads of a        *)
(* request body is looked up in the table of the bodies the requests carry. *)

\* None where a text is expected
PyNone == "None"

\* None, and the JSON null that json.loads turns into it
JsonNull == "null"

\* bool(v) of a parsed JSON scalar
JsonTruthy(v) == v \notin {JsonNull, "0", "false", "\"\""}

\* str(v) of a parsed JSON scalar, as an f-string formats it
PyFormat(v) ==
    CASE v = JsonNull -> PyNone
      [] v = "true" -> "True"
      [] v = "false" -> "False"
      [] v = "\"\"" -> ""
      [] v = "\"A7\"" -> "A7"
      [] OTHER -> v

JsonObject(items) == [ok |-> TRUE, type |-> "dict", items |-> items]

JsonArray == [ok |-> TRUE, type |-> "list", items |-> {}]

JSONDecodeError == [ok |-> FALSE, type |-> "error", items |-> {}]

BodyOrder == "{\"id\": 12345, \"name\": \"#1001\"}"

BodyTextId == "{\"id\": \"A7\"}"

BodyZeroId == "{\"id\": 0}"

BodyNoId == "{\"name\": \"#1001\"}"

BodyArray == "[12345]"

BodyNotJson == "{\"id\": 12345"

Bodies == {BodyOrder, BodyTextId, BodyZeroId, BodyNoId, BodyArray, BodyNotJson}

\* json.loads(request.body)
JsonLoads(body) ==
    CASE body = BodyOrder -> JsonObject({<<"id", "12345">>, <<"name", "\"#1001\"">>})
      [] body = BodyTextId -> JsonObject({<<"id", "\"A7\"">>})
      [] body = BodyZeroId -> JsonObject({<<"id", "0">>})
      [] body = BodyNoId -> JsonObject({<<"name", "\"#1001\"">>})
      [] body = BodyArray -> JsonArray
      [] OTHER -> JSONDecodeError

\* d.get(key) of a parsed JSON object
JsonGet(d, key) ==
    IF \E kv \in d.items : kv[1] = key
    THEN (CHOOSE kv \in d.items : kv[1] = key)[2]
    ELSE JsonNull

\* data.get(key) of an event payload whose value is a text
Get(data, key) == IF key \in DOMAIN data THEN data[key] ELSE PyNone

\* bool(data.get(key)) for a text
Truthy(data, key) == key \in DOMAIN data /\ data[key] \notin {"", PyNone}

\* bool(data.get(key)) for a parsed JSON object
TruthyObject(data, key) == key \in DOMAIN data /\ data[key].items # {}

----------------------------------------------------------------------------
(* ShoppyShop.on *)

\* The mutation a missing membership test would make
on_without_check(eh, event, handler) == [eh EXCEPT ![event] = Append(@, handler)]

on(eh, event, handler) ==
    IF handler \notin Range(eh[event])
    THEN [eh EXCEPT ![event] = Append(@, handler)]
    ELSE eh

----------------------------------------------------------------------------
(* ShoppyShop.emit, one frame per call.  phase is where the frame stands:  *)
(* "loop" at the head of `for handler in handlers`, "await" inside the try *)
(* while the handler runs, "except" inside the except clause while the     *)
(* nested emit(ERROR) runs, "done" at the summary after the loop.          *)
(* regs, called, results, raised and delivered are history: the handlers   *)
(* registered when the call began, the handlers invoked, how each ended,   *)
(* the ones that raised and the ERROR publications made for them.          *)

ErrorPayload(event, error, handler_name) ==
    [event |-> event, error |-> error, handler |-> handler_name]

NewEmitFrame(event, data) ==
    [fn |-> "emit", event |-> event, data |-> data, idx |-> 0, phase |-> "loop",
     cur |-> NoHandler, exc |-> "", regs |-> event_handlers[event],
     called |-> <<>>, results |-> <<>>, raised |-> <<>>, delivered |-> <<>>]

\* An exception that left the outermost frame and reaches the caller
Escaped(error) ==
    [fn |-> "escaped", event |-> "", data |-> [tag |-> "none"], idx |-> 0,
     phase |-> "raised", cur |-> NoHandler, exc |-> error, regs |-> <<>>,
     called |-> <<>>, results |-> <<>>, raised |-> <<>>, delivered |-> <<>>]

HasEscaped(s) == s # <<>> /\ Top(s).fn = "escaped"

RECURSIVE Propagate(_, _)
RECURSIVE CallEmit(_, _, _)
RECURSIVE CatchInEmit(_, _)
RECURSIVE CatchInHandler(_, _)

\* The mutation: the payload names the event being published, not the one that failed
CatchInEmit_wrong_payload(s, error) ==
    LET f == Top(s)
        g == [f EXCEPT !.phase = "except", !.cur = NoHandler,
                       !.results = Append(@, error),
                       !.raised = Append(@, [handler |-> f.cur, error |-> error])]
    IN  CallEmit(ReplaceTop(s, g), ERROR, ErrorPayload(ERROR, error, HandlerName(f.cur)))

\* except Exception as e: count, log, await self.emit(ServiceEvent.ERROR, {...})
CatchInEmit(s, error) ==
    LET f == Top(s)
        g == [f EXCEPT !.phase = "except", !.cur = NoHandler,
                       !.results = Append(@, error),
                       !.raised = Append(@, [handler |-> f.cur, error |-> error])]
    IN  CallEmit(ReplaceTop(s, g), ERROR, ErrorPayload(f.event, error, HandlerName(f.cur)))

\* await self.emit(event, data): a new frame, or RecursionError at the call
CallEmit(s, event, data) ==
    IF Len(s) >= RecursionLimit
    THEN Propagate(s, RecursionErrorText)
    ELSE Append(s, NewEmitFrame(event, data))

\* _handle_order_created, except Exception as e: log, await self.emit(ERROR, {...})
CatchInHandler(s, error) ==
    LET f == Top(s)
    IN  CallEmit(ReplaceTop(s, [f EXCEPT !.phase = "except", !.exc = error]), ERROR,
                 [event |-> "order_created", error |-> error,
                  order_id |-> Get(f.data, "order_id")])

\* An exception arrives at the await the top frame stands at
Propagate(s, error) ==
    IF s = <<>> THEN <<Escaped(error)>>
    ELSE IF Top(s).fn = "emit" /\ Top(s).phase = "await" THEN CatchInEmit(s, error)
    ELSE IF Top(s).fn = DefaultHandler /\ Top(s).phase = "try" THEN CatchInHandler(s, error)
    ELSE Propagate(Pop(s), error)

\* A call of _handle_order_created(data).  phase is where the frame stands: "start"
\* at its first statement, "try" while the emit of _process_shopify_order runs,
\* "fetch" while shopify.get_order runs, "except" while the emit of its except
\* clause runs, "ret" at its return.  delivered is history: what it published.
NewHandlerFrame(data) ==
    [fn |-> DefaultHandler, event |-> "", data |-> data, idx |-> 0, phase |-> "start",
     cur |-> NoHandler, exc |-> "", regs |-> <<>>,
     called |-> <<>>, results |-> <<>>, raised |-> <<>>, delivered |-> <<>>]

\* await handler(data) for the default handler: a new frame, or RecursionError
CallHandler(s, data) ==
    IF Len(s) >= RecursionLimit
    THEN Propagate(s, RecursionErrorText)
    ELSE Append(s, NewHandlerFrame(data))

\* The mutation: _process_shopify_order finds no id in any order
OrderIdMissing_always(order_id) == TRUE

\* if not order_id
OrderIdMissing(order_id) == ~JsonTruthy(order_id)

\* _process_shopify_order(order)
ProcessShopifyOrder(s, order) ==
    LET order_id == JsonGet(order, "id")
    IN  IF OrderIdMissing(order_id)
        THEN CatchInHandler(s, "Order data missing ID field")
        ELSE CallEmit(ReplaceTop(s, [Top(s) EXCEPT !.phase = "try"]), ORDER_UPDATED,
                      [order_id |-> order_id, status |-> "processed",
                       source |-> "shopify", order_data |-> order])

\* _handle_order_created(data), from its first statement to its first await
HandleOrderCreated(s) ==
    LET data == Top(s).data
    IN  IF ~Truthy(data, "source") \/ ~Truthy(data, "order_id")
        THEN CatchInHandler(s, "Missing required order data")
        ELSE IF data.source # "shopify"
        THEN ReplaceTop(s, [Top(s) EXCEPT !.phase = "ret"])
        ELSE IF TruthyObject(data, "raw_data")
        THEN ProcessShopifyOrder(s, data.raw_data)
        ELSE ReplaceTop(s, [Top(s) EXCEPT !.phase = "fetch"])

\* The handler the top frame awaits has ended
HandlerDone(s, result) ==
    IF result = "ok"
    THEN ReplaceTop(s, [Top(s) EXCEPT !.phase = "loop", !.cur = NoHandler,
                                      !.results = Append(@, "ok")])
    ELSE Propagate(s, result)

\* The mutation: the loop stops at the first handler that raises
EmitNext_break_on_error(s) ==
    LET f == Top(s)
    IN  IF f.idx < Len(event_handlers[f.event]) /\ f.raised = <<>>
        THEN LET h == event_handlers[f.event][f.idx + 1]
             IN  ReplaceTop(s, [f EXCEPT !.idx = @ + 1, !.phase = "await", !.cur = h,
                                         !.called = Append(@, h)])
        ELSE ReplaceTop(s, [f EXCEPT !.phase = "done"])

\* The mutation: a call delivers nothing more while another call is in progress
EmitNext_unless_busy(s) ==
    LET f == Top(s)
    IN  IF f.idx < Len(event_handlers[f.event])
           /\ ~\E p \in Procs : stack[p] # <<>> /\ stack[p] # s
        THEN LET h == event_handlers[f.event][f.idx + 1]
             IN  ReplaceTop(s, [f EXCEPT !.idx = @ + 1, !.phase = "await", !.cur = h,
                                         !.called = Append(@, h)])
        ELSE ReplaceTop(s, [f EXCEPT !.phase = "done"])

\* for handler in handlers: the list iterator reads the live list at its index
EmitNext(s) ==
    LET f == Top(s)
    IN  IF f.idx < Len(event_handlers[f.event])
        THEN LET h == event_handlers[f.event][f.idx + 1]
             IN  ReplaceTop(s, [f EXCEPT !.idx = @ + 1, !.phase = "await", !.cur = h,
                                         !.called = Append(@, h)])
        ELSE ReplaceTop(s, [f EXCEPT !.phase = "done"])

\* return from emit: the caller's await resumes
EmitReturn(s) ==
    LET f == Top(s)
        rest == Pop(s)
        made == [event |-> f.event, data |-> f.data, regs |-> f.regs, called |-> f.called]
    IN  IF rest # <<>> /\ Top(rest).fn = "emit" /\ Top(rest).phase = "except"
        THEN ReplaceTop(rest, [Top(rest) EXCEPT !.phase = "loop",
                                                !.delivered = Append(@, made)])
        ELSE IF rest # <<>> /\ Top(rest).fn = DefaultHandler
        THEN ReplaceTop(rest, [Top(rest) EXCEPT !.phase = "ret",
                                                !.delivered = Append(@, made)])
        ELSE rest

\* The running coroutine chain of p is suspended at an await that yields to the
\* event loop (inside an async handler), or p runs nothing
Suspended(p) ==
    IF stack[p] = <<>> THEN TRUE
    ELSE IF Top(stack[p]).fn = DefaultHandler THEN Top(stack[p]).phase = "fetch"
    ELSE /\ Top(stack[p]).fn = "emit"
         /\ Top(stack[p]).phase = "await"
         /\ Top(stack[p]).cur = AsyncStub

----------------------------------------------------------------------------
(* Steps of a coroutine chain inside emit *)

\* message_func(data) of the wrapper handler made for a kind
Message(event, data) ==
    CASE event = ORDER_CREATED ->
             [type |-> "success",
              message |-> "New order received: #" \o PyFormat(Get(data, "order_id"))]
      [] event = ORDER_UPDATED ->
             [type |-> "success",
              message |-> "Order #" \o PyFormat(Get(data, "order_id")) \o " has been updated"]
      [] OTHER ->
             [type |-> "error", message |-> "Error: " \o PyFormat(Get(data, "error"))]

\* handle_event: the item put into the connection's queue; no is history, the
\* number of the publisher's emit call the notification belongs to
Notification(h, data) ==
    [event |-> "notification", type |-> Message(KindOf(h), data).type,
     message |-> Message(KindOf(h), data).message, kind |-> KindOf(h), no |-> emit_no]

\* The head of the loop: the next handler is called, or the loop ends.
\* A plain function runs to its end within the call, and so does the wrapper
\* handler of a stream connection, whose awaits never yield (the queue is unbounded).
\* out[h] is what an invocation of the caller-supplied handler h may do.
EmitLoopStepWith(p, out) ==
    /\ stack[p] # <<>>
    /\ Top(stack[p]).fn = "emit"
    /\ Top(stack[p]).phase = "loop"
    /\ LET s == EmitNext(stack[p])
       IN  IF Top(s).phase = "await" /\ Top(s).cur \in StubHandlers
                /\ ~IsCoroutineFunction(Top(s).cur)
           THEN /\ \E r \in out[Top(s).cur] :
                      stack' = [stack EXCEPT ![p] = HandlerDone(s, r)]
                /\ UNCHANGED <<queue, put>>
           ELSE IF Top(s).phase = "await" /\ Top(s).cur = DefaultHandler
           THEN /\ stack' = [stack EXCEPT ![p] = CallHandler(s, Top(s).data)]
                /\ UNCHANGED <<queue, put>>
           ELSE IF Top(s).phase = "await" /\ Top(s).cur \in StreamHandlers
           THEN /\ stack' = [stack EXCEPT ![p] = HandlerDone(s, "ok")]
                /\ queue' = [queue EXCEPT ![ConnOf(Top(s).cur)] =
                                  Append(@, Notification(Top(s).cur, Top(s).data))]
                /\ put' = [put EXCEPT ![ConnOf(Top(s).cur)] =
                                  Append(@, Notification(Top(s).cur, Top(s).data))]
           ELSE /\ stack' = [stack EXCEPT ![p] = s]
                /\ UNCHANGED <<queue, put>>
    /\ UNCHANGED <<event_handlers, outcome, dup_on, schedVars, webVars,
                   conn, sent, emit_no, last_kind, listeners>>

\* Every invocation of a caller-supplied handler may return or raise
AnyOutcome == [h \in StubHandlers |-> HandlerOutcomes(h)]

EmitLoopStep(p) == EmitLoopStepWith(p, AnyOutcome)

\* An awaited async handler returns or raises
EmitAwaitStepWith(p, out) ==
    /\ stack[p] # <<>>
    /\ Top(stack[p]).fn = "emit"
    /\ Top(stack[p]).phase = "await"
    /\ Top(stack[p]).cur \in StubHandlers
    /\ \E r \in out[Top(stack[p]).cur] :
           stack' = [stack EXCEPT ![p] = HandlerDone(stack[p], r)]
    /\ UNCHANGED <<event_handlers, outcome, dup_on, schedVars, webVars, streamVars>>

EmitAwaitStep(p) == EmitAwaitStepWith(p, AnyOutcome)

\* The default handler runs from its first statement to its first await
HandlerStartStep(p) ==
    /\ stack[p] # <<>>
    /\ Top(stack[p]).fn = DefaultHandler
    /\ Top(stack[p]).phase = "start"
    /\ stack' = [stack EXCEPT ![p] = HandleOrderCreated(stack[p])]
    /\ UNCHANGED <<event_handlers, outcome, dup_on, schedVars, webVars, streamVars>>

\* The default handler returns: the emit that awaits it goes on
HandlerReturnStep(p) ==
    /\ stack[p] # <<>>
    /\ Top(stack[p]).fn = DefaultHandler
    /\ Top(stack[p]).phase = "ret"
    /\ stack' = [stack EXCEPT ![p] = HandlerDone(Pop(stack[p]), "ok")]
    /\ UNCHANGED <<event_handlers, outcome, dup_on, schedVars, webVars, streamVars>>

\* The summary is logged and emit returns
EmitReturnStep(p) ==
    /\ stack[p] # <<>>
    /\ Top(stack[p]).fn = "emit"
    /\ Top(stack[p]).phase = "done"
    /\ stack' = [stack EXCEPT ![p] = EmitReturn(stack[p])]
    /\ UNCHANGED <<event_handlers, outcome, dup_on, schedVars, webVars, streamVars>>

\* ShoppyShop.__init__: no handler registered, nothing running
BusIdle ==
    /\ event_handlers = [k \in ServiceEvent |-> <<>>]
    /\ stack = [p \in Procs |-> <<>>]
    /\ outcome = [p \in Procs |-> "idle"]
    /\ dup_on = FALSE

\* No coroutine
NoOne == "no_one"

\* A missing header: request.headers.get and request.META.get return None
NoHeader == "<none>"

\* A request that has not arrived
IdleRequest ==
    [pc |-> "idle", view |-> "", ctx |-> "", hmac |-> NoHeader, topic |-> NoHeader,
     body |-> "", status |-> 0, touched |-> FALSE, init_calls |-> 0,
     init_failed |-> FALSE, parsed |-> FALSE, published |-> <<>>,
     waited |-> FALSE, gi |-> "", ref |-> 0, result |-> "", loop |-> "none",
     early |-> FALSE, statuses |-> <<>>]

\* self.shopify = None: no adapter, so no client
NoAdapter == [init |-> "unset", client |-> "none"]

\* The class attributes of ShoppyShop at import: no instance, nothing initialized
WebIdle ==
    /\ instance = FALSE
    /\ initialized = FALSE
    /\ default_handlers_registered = FALSE
    /\ lock = [holder |-> NoOne, waiters |-> <<>>]
    /\ shopify = NoAdapter
    /\ ebay = "unset"
    /\ meta = "unset"
    /\ owner = NoOne
    /\ orphaned = FALSE
    /\ task_loop = "none"
    /\ instances_made = 0
    /\ gi_attempts = 0
    /\ handed_out = FALSE
    /\ down = TRUE
    /\ req = [r \in WebhookRequests |-> IdleRequest]

\* No stream connection has been requested, no emit call was made
StreamIdle ==
    /\ conn = [c \in Conns |-> "none"]
    /\ queue = [c \in Conns |-> <<>>]
    /\ sent = [c \in Conns |-> <<>>]
    /\ put = [c \in Conns |-> <<>>]
    /\ emit_no = 0
    /\ last_kind = ""
    /\ listeners = {}

----------------------------------------------------------------------------
(* Task and ShoppyShop._task_scheduler.  A scheduler coroutine is created  *)
(* by _initialize_full (asyncio.create_task) and cancelled by shutdown.    *)
(* Between two awaits it runs without interruption, so it is observed only *)
(* where it is suspended: in `await task.func(..)` (pc "run", at task i)   *)
(* or in `await asyncio.sleep(1)` (pc "sleep", with the seconds left).     *)

\* Task.last_run = None
NoRun == -1

\* await asyncio.sleep(1)
PollSeconds == 1

SchedulerLoops == {"loop_a", "loop_b"}

TaskIds == DOMAIN tasks

\* The mutation: every task is due at every pass
Due_always(t) == TRUE

\* not task.last_run or datetime.now() - task.last_run >= task.interval
Due(t) == last_run[t] = NoRun \/ now - last_run[t] >= tasks[t].interval

\* The mutation: the interval test without the is_running test
Startable_ignoring_is_running(t) == Due(t)

\* The two nested conditions under which the loop starts task t
Startable(t) == Due(t) /\ ~is_running[t]

\* for task in self.tasks, from position i: the first task the loop starts
\* (Len(tasks) + 1 when the loop reaches the end of the list)
RECURSIVE NextStart(_)
NextStart(i) ==
    IF i > Len(tasks) THEN i
    ELSE IF Startable(i) THEN i
    ELSE NextStart(i + 1)

\* The loop goes on from position i: it starts a task and awaits it, or sleeps
Continue(l, i, running, lastrun) ==
    LET j == NextStart(i)
    IN  /\ skipped' = (skipped \/ \E k \in i..(j - 1) : Due(k) /\ is_running[k])
        /\ last_run' = lastrun
        /\ IF j <= Len(tasks)
           THEN /\ is_running' = [running EXCEPT ![j] = TRUE]
                /\ loops' = [loops EXCEPT ![l] = [pc |-> "run", i |-> j, left |-> 0]]
           ELSE /\ is_running' = running
                /\ loops' = [loops EXCEPT ![l] = [pc |-> "sleep", i |-> 0, left |-> PollSeconds]]

\* self.task_loop = asyncio.create_task(self._task_scheduler())
SchedCreate(l) ==
    /\ loops[l].pc = "off"
    /\ loops' = [loops EXCEPT ![l] = [pc |-> "sleep", i |-> 0, left |-> 0]]
    /\ UNCHANGED <<tasks, last_run, is_running, now, done_at, done_how, skipped, busVars, webVars, streamVars>>

\* The coroutine starts, or asyncio.sleep(1) returns: one pass over the tasks begins
SchedCycle(l) ==
    /\ loops[l].pc = "sleep"
    /\ loops[l].left = 0
    /\ Continue(l, 1, is_running, last_run)
    /\ UNCHANGED <<tasks, now, done_at, done_how, busVars, webVars, streamVars>>

\* except Exception: the error is logged; last_run keeps its value
TaskRaisedLastRun(t) == last_run

\* The mutation: an error in a task ends the pass over the tasks
AfterError_end(t) == Len(tasks) + 1

\* The except and finally clauses are inside the for loop: after an error in
\* task t the pass goes on with the next task
AfterError(t) == t + 1

\* await task.func(..) returns: last_run is set, is_running is reset, the loop goes on
SchedTaskReturns(l) ==
    /\ loops[l].pc = "run"
    /\ LET t == loops[l].i
       IN  /\ done_at' = [done_at EXCEPT ![t] = now]
           /\ done_how' = [done_how EXCEPT ![t] = "returned"]
           /\ Continue(l, t + 1, [is_running EXCEPT ![t] = FALSE],
                       [last_run EXCEPT ![t] = now])
    /\ UNCHANGED <<tasks, now, busVars, webVars, streamVars>>

\* await task.func(..) raises an Exception: it is logged, is_running is reset
SchedTaskRaises(l) ==
    /\ loops[l].pc = "run"
    /\ LET t == loops[l].i
       IN  /\ done_at' = [done_at EXCEPT ![t] = now]
           /\ done_how' = [done_how EXCEPT ![t] = "raised"]
           /\ Continue(l, AfterError(t), [is_running EXCEPT ![t] = FALSE], TaskRaisedLastRun(t))
    /\ UNCHANGED <<tasks, now, busVars, webVars, streamVars>>

\* task_loop.cancel(): CancelledError is raised at the await the loop stands at;
\* the finally clause resets is_running and the loop breaks
SchedCancel(l) ==
    /\ loops[l].pc \in {"run", "sleep"}
    /\ loops' = [loops EXCEPT ![l] = [pc |-> "off", i |-> 0, left |-> 0]]
    /\ IF loops[l].pc = "run"
       THEN /\ is_running' = [is_running EXCEPT ![loops[l].i] = FALSE]
            /\ done_how' = [done_how EXCEPT ![loops[l].i] = "cancelled"]
       ELSE UNCHANGED <<is_running, done_how>>
    /\ UNCHANGED <<tasks, last_run, now, done_at, skipped, busVars, webVars, streamVars>>

\* One second passes
Tick ==
    /\ now < MaxTime
    /\ now' = now + 1
    /\ loops' = [l \in SchedulerLoops |->
                    IF loops[l].pc = "sleep" /\ loops[l].left > 0
                    THEN [loops[l] EXCEPT !.left = @ - 1]
                    ELSE loops[l]]
    /\ UNCHANGED <<tasks, last_run, is_running, done_at, done_how, skipped, busVars, webVars, streamVars>>

\* Task.__init__ for every registered task
TasksIdle(ts) ==
    /\ tasks = ts
    /\ last_run = [t \in DOMAIN ts |-> NoRun]
    /\ is_running = [t \in DOMAIN ts |-> FALSE]
    /\ now = 0
    /\ done_at = [t \in DOMAIN ts |-> NoRun]
    /\ done_how = [t \in DOMAIN ts |-> "none"]
    /\ skipped = FALSE

\* The tasks are registered; no scheduler coroutine yet
SchedIdleWith(ts) ==
    /\ TasksIdle(ts)
    /\ loops = [l \in SchedulerLoops |-> [pc |-> "off", i |-> 0, left |-> 0]]

\* self.tasks = []
SchedIdle == SchedIdleWith(<<>>)

\* The task lists the scheduler is checked with: two tasks, every interval
TaskLists ==
    {<<[interval |-> a], [interval |-> b]>> :
        a \in (PollSeconds + 1)..MaxInterval, b \in (PollSeconds + 1)..MaxInterval}

InitSched == BusIdle /\ WebIdle /\ StreamIdle /\ \E ts \in TaskLists : SchedIdleWith(ts)

NextSched ==
    \/ \E l \in SchedulerLoops : SchedCreate(l)
    \/ \E l \in SchedulerLoops : SchedCycle(l)
    \/ \E l \in SchedulerLoops : SchedTaskReturns(l)
    \/ \E l \in SchedulerLoops : SchedTaskRaises(l)
    \/ \E l \in SchedulerLoops : SchedCancel(l)
    \/ Tick

SpecSched == InitSched /\ [][NextSched]_vars

----------------------------------------------------------------------------
(* The event bus on its own: a publisher that calls emit, and on() called  *)
(* by other code whenever the publisher is not running.                    *)

BusOn(event, handler) ==
    /\ Suspended(Publisher)
    /\ event_handlers' = on(event_handlers, event, handler)
    /\ dup_on' = (dup_on \/ handler \in Range(event_handlers[event]))
    /\ UNCHANGED <<stack, outcome, schedVars, webVars, streamVars>>

BusEmit(event, data) ==
    /\ stack[Publisher] = <<>>
    /\ outcome[Publisher] # "running"
    /\ stack' = [stack EXCEPT ![Publisher] = CallEmit(<<>>, event, data)]
    /\ outcome' = [outcome EXCEPT ![Publisher] = "running"]
    /\ UNCHANGED <<event_handlers, dup_on, schedVars, webVars, streamVars>>

BusEmitReturned ==
    /\ stack[Publisher] = <<>>
    /\ outcome[Publisher] = "running"
    /\ outcome' = [outcome EXCEPT ![Publisher] = "returned"]
    /\ UNCHANGED <<event_handlers, stack, dup_on, schedVars, webVars, streamVars>>

BusEmitRaised ==
    /\ HasEscaped(stack[Publisher])
    /\ outcome[Publisher] = "running"
    /\ stack' = [stack EXCEPT ![Publisher] = <<>>]
    /\ outcome' = [outcome EXCEPT ![Publisher] = "raised"]
    /\ UNCHANGED <<event_handlers, dup_on, schedVars, webVars, streamVars>>

InitBus == BusIdle /\ SchedIdle /\ WebIdle /\ StreamIdle

NextBus ==
    \/ \E k \in ServiceEvent, h \in StubHandlers : BusOn(k, h)
    \/ \E k \in ServiceEvent, d \in BusPayloads : BusEmit(k, d)
    \/ EmitLoopStep(Publisher)
    \/ EmitAwaitStep(Publisher)
    \/ EmitReturnStep(Publisher)
    \/ BusEmitReturned
    \/ BusEmitRaised

SpecBus == InitBus /\ [][NextBus]_vars

----------------------------------------------------------------------------
(* Two emit calls with the same kind and payload.  The handlers are         *)
(* deterministic: what an invocation does is a function of the handler and  *)
(* of the payload it is given.  One call is made by the publisher, the      *)
(* other by a second coroutine; either runs while the other has not begun,  *)
(* is suspended in an async handler or has ended.  on() is called only      *)
(* while neither call is in progress.  The outermost frame of each call is  *)
(* kept until both have ended.                                              *)

\* The coroutine that makes the second call
Second == "req_a"

Twins == {Publisher, Second}

\* The payloads of the two calls: each says what the handlers do with it
TwinPayloads ==
    {[tag |-> "payload", sync |-> x, async |-> y] :
        x \in HandlerOutcomes(SyncStub), y \in HandlerOutcomes(AsyncStub)}

\* handler(data) for a deterministic handler: the payload of a call decides; given
\* the payload of an ERROR event the handler raises if the error is its own
DetOutcome(h, data) ==
    IF "tag" \in DOMAIN data
    THEN (IF h = SyncStub THEN data.sync ELSE data.async)
    ELSE IF "handler" \in DOMAIN data /\ data.handler = HandlerName(h)
    THEN HandlerError(h)
    ELSE "ok"

\* What the handlers do with the payload of the call the top frame of p belongs to
TwinOutcome(p) == [h \in StubHandlers |-> {DetOutcome(h, Top(stack[p]).data)}]

\* The call of p has ended: its outermost frame is at its return, or an
\* exception has left it
TwinEnded(p) ==
    \/ HasEscaped(stack[p])
    \/ Len(stack[p]) = 1 /\ Top(stack[p]).fn = "emit" /\ Top(stack[p]).phase = "done"

\* The coroutine of p has been created and has not run yet
TwinNotBegun(p) ==
    /\ Len(stack[p]) = 1
    /\ Top(stack[p]).fn = "emit"
    /\ Top(stack[p]).phase = "loop"
    /\ Top(stack[p]).idx = 0

\* p does not hold the event loop
TwinParked(p) == Suspended(p) \/ TwinEnded(p) \/ TwinNotBegun(p)

TwinOn(event, handler) ==
    /\ \A p \in Twins : stack[p] = <<>>
    /\ BusOn(event, handler)

\* The two calls are made, with the same kind and payload
TwinEmit(event, data) ==
    /\ \A p \in Twins : stack[p] = <<>>
    /\ stack' = [p \in Procs |-> IF p \in Twins THEN CallEmit(<<>>, event, data)
                                  ELSE stack[p]]
    /\ outcome' = [p \in Procs |-> IF p \in Twins THEN "running" ELSE outcome[p]]
    /\ UNCHANGED <<event_handlers, dup_on, schedVars, webVars, streamVars>>

\* One step of the call of p while the other coroutine does not run
TwinStep(p) ==
    /\ stack[p] # <<>>
    /\ ~TwinEnded(p)
    /\ \A q \in Twins \ {p} : TwinParked(q)
    /\ \/ EmitLoopStepWith(p, TwinOutcome(p))
       \/ EmitAwaitStepWith(p, TwinOutcome(p))
       \/ EmitReturnStep(p)

\* Both calls have ended and return to their callers
TwinReturn ==
    /\ \A p \in Twins : TwinEnded(p)
    /\ stack' = [p \in Procs |-> IF p \in Twins THEN <<>> ELSE stack[p]]
    /\ outcome' = [p \in Procs |->
                       IF p \notin Twins THEN outcome[p]
                       ELSE IF HasEscaped(stack[p]) THEN "raised" ELSE "returned"]
    /\ UNCHANGED <<event_handlers, dup_on, schedVars, webVars, streamVars>>

InitTwin == BusIdle /\ SchedIdle /\ WebIdle /\ StreamIdle

NextTwin ==
    \/ \E k \in ServiceEvent, h \in StubHandlers : TwinOn(k, h)
    \/ \E k \in ServiceEvent, d \in TwinPayloads : TwinEmit(k, d)
    \/ \E p \in Twins : TwinStep(p)
    \/ TwinReturn

SpecTwin == InitTwin /\ [][NextTwin]_vars

----------------------------------------------------------------------------
(* shopify_webhook and the start-up it drives.  A request coroutine runs    *)
(* without interruption from one await that yields to the event loop to the *)
(* next: the wait for ShoppyShop._lock and the HTTP call that validates the *)
(* Shopify credentials.  pc is the statement a request stands at; the steps *)
(* between two yielding awaits are taken while every other request stands   *)
(* at such an await.  touched, init_calls, init_failed, parsed and          *)
(* published are history of the request in flight.                          *)

\* Values of the X-Shopify-Hmac-Sha256 header
HmacValues == {NoHeader, "", "mock-hmac"}

\* Values of the X-Shopify-Topic header
TopicValues == {NoHeader, "", "orders/create", "products/create"}

\* bool(v) of a header value
HeaderTruthy(v) == v \notin {NoHeader, ""}

\* The mutation: only the signature is required
HeadersMissing_signature_only(hmac, topic) == ~HeaderTruthy(hmac)

\* if not hmac or not topic
HeadersMissing(hmac, topic) == ~HeaderTruthy(hmac) \/ ~HeaderTruthy(topic)

\* The mutation: every topic is processed
TopicIgnored_never(topic) == FALSE

\* if topic != 'orders/create'
TopicIgnored(topic) == topic # "orders/create"

\* The mutation: the identifier is passed on as it came
Gid_unprefixed(order_id) == PyFormat(order_id)

\* f"gid://shopify/Order/{order_id}"
Gid(order_id) == "gid://shopify/Order/" \o PyFormat(order_id)

\* The pcs at which a request is suspended, has not arrived or has been answered
AtYield == {"idle", "wait_lock", "validate", "await_loop", "closing", "check_status",
            "done"}

\* The event loop can run request r: no other coroutine is between two yields
Exclusive(r) ==
    \A q \in WebhookRequests \ {r} :
        IF req[q].pc = "emit" THEN stack[q] # <<>> /\ Suspended(q)
        ELSE req[q].pc \in AtYield

\* return HttpResponse(status=code)
Respond(r, code) == [req EXCEPT ![r].pc = "done", ![r].status = code]

\* asyncio.Lock.release: the lock goes to the first waiter, if any
Release(l) ==
    IF l.waiters = <<>>
    THEN [holder |-> NoOne, waiters |-> <<>>]
    ELSE [holder |-> Head(l.waiters), waiters |-> Tail(l.waiters)]

\* A POST arrives: the header checks, up to the call of get_instance
WebhookReceive(r, hmac, topic, body) ==
    /\ req[r].pc = "idle"
    /\ Exclusive(r)
    /\ LET q == [req[r] EXCEPT !.view = "webhook", !.hmac = hmac, !.topic = topic,
                               !.body = body]
       IN  req' = [req EXCEPT ![r] =
                IF HeadersMissing(hmac, topic) THEN [q EXCEPT !.pc = "done", !.status = 401]
                ELSE IF TopicIgnored(topic) THEN [q EXCEPT !.pc = "done", !.status = 200]
                ELSE [q EXCEPT !.pc = "get_instance"]]
    /\ UNCHANGED <<instance, initialized, default_handlers_registered, lock, shopify,
                   task_loop, startVars, busVars, schedVars, streamVars>>

\* get_instance, async with cls._lock: the lock is taken, or the request waits
GetInstanceEnter(r) ==
    /\ req[r].pc = "get_instance"
    /\ Exclusive(r)
    /\ IF lock.holder = NoOne /\ lock.waiters = <<>>
       THEN /\ lock' = [lock EXCEPT !.holder = r]
            /\ req' = [req EXCEPT ![r].pc = "locked", ![r].touched = TRUE]
       ELSE /\ lock' = [lock EXCEPT !.waiters = Append(@, r)]
            /\ req' = [req EXCEPT ![r].pc = "wait_lock", ![r].touched = TRUE,
                                  ![r].waited = TRUE]
    /\ UNCHANGED <<instance, initialized, default_handlers_registered, shopify,
                   task_loop, startVars, busVars, schedVars, streamVars>>

\* The lock was released to a waiting request: it resumes inside the lock
LockAcquired(r) ==
    /\ req[r].pc = "wait_lock"
    /\ lock.holder = r
    /\ Exclusive(r)
    /\ req' = [req EXCEPT ![r].pc = "locked"]
    /\ UNCHANGED <<instance, initialized, default_handlers_registered, lock, shopify,
                   task_loop, startVars, busVars, schedVars, streamVars>>

\* The mutation: get_instance constructs an orchestrator at every call
InstanceMissing_always(inst) == TRUE

\* if not cls._instance
InstanceMissing(inst) == ~inst

\* The scheduler coroutines create_task can make: the slots that hold no coroutine
\* and that no shutdown call is waiting for
FreeLoops ==
    {l \in SchedulerLoops : loops[l].pc = "off" /\ \A r \in WebhookRequests : req[r].loop # l}

\* The slot the next scheduler coroutine takes
FirstFree == IF "loop_a" \in FreeLoops THEN "loop_a" ELSE "loop_b"

\* The callers of get_instance that are views: an exception that leaves the view
\* is answered 500
HttpViews == {"webhook", "service_status"}

\* return cls._instance: the caller of get_instance has the orchestrator, with
\* the flag as it stands at the return
Returned(q, flag, n) ==
    [q EXCEPT !.gi = IF flag THEN "initialized" ELSE "uninitialized",
              !.ref = n,
              !.pc = IF q.view = "webhook" THEN "initialize_services"
                     ELSE IF q.view = "service_status" THEN "check_status"
                     ELSE "done",
              !.result = IF q.view \in HttpViews THEN "" ELSE "returned"]

\* initialize_services has returned
Initialized(q) ==
    IF q.view = "webhook" THEN [q EXCEPT !.pc = "parse"]
    ELSE [q EXCEPT !.pc = "done", !.result = "returned"]

\* ServiceInitializationError leaves get_instance or initialize_services: the view
\* answers 500 or 503, any other caller sees the exception
Failed(q) ==
    IF q.view \in HttpViews
    THEN [q EXCEPT !.pc = "done", !.init_failed = TRUE,
                   !.status = IF q.ctx = "get_instance" THEN 500 ELSE 503]
    ELSE [q EXCEPT !.pc = "done", !.init_failed = TRUE, !.result = "raised",
                   !.gi = IF q.ctx = "get_instance" THEN "raised" ELSE @]

\* _initialize_full up to await self.shopify.initialize(): the three adapters are
\* constructed and replace the attributes, the Shopify adapter makes its client
BeginInitialize(r) ==
    /\ shopify' = [init |-> "pending", client |-> "open"]
    /\ ebay' = "new"
    /\ meta' = "new"
    /\ owner' = r
    /\ orphaned' = (orphaned \/ shopify.client = "open")

\* Inside the lock: the instance is created and initialized, or returned as it is
GetInstanceLocked(r) ==
    /\ req[r].pc = "locked"
    /\ Exclusive(r)
    /\ IF InstanceMissing(instance)
       THEN /\ instance' = TRUE
            /\ instances_made' = instances_made + 1
            /\ event_handlers' = [k \in ServiceEvent |-> <<>>]
            /\ task_loop' = "none"
            /\ IF initialized
               THEN /\ lock' = Release(lock)
                    /\ req' = [req EXCEPT ![r] = Returned(req[r], TRUE, instances_made + 1)]
                    /\ handed_out' = TRUE
                    /\ UNCHANGED <<shopify, ebay, meta, owner, orphaned, gi_attempts>>
               ELSE /\ BeginInitialize(r)
                    /\ gi_attempts' = gi_attempts + 1
                    /\ req' = [req EXCEPT ![r].pc = "validate", ![r].ctx = "get_instance"]
                    /\ UNCHANGED <<lock, handed_out>>
       ELSE /\ lock' = Release(lock)
            /\ req' = [req EXCEPT ![r] = Returned(req[r], initialized, instances_made)]
            /\ handed_out' = TRUE
            /\ UNCHANGED <<instance, event_handlers, task_loop, shopify, ebay, meta, owner, orphaned,
                           instances_made, gi_attempts>>
    /\ UNCHANGED <<initialized, default_handlers_registered, down, stack, outcome, dup_on,
                   schedVars, streamVars>>

\* The mutation: initialize_services initializes whatever the flag says
NeedsInitialize_always(flag) == TRUE

\* if not ShoppyShop._initialized, in initialize_services and again at the head
\* of _initialize_full
NeedsInitialize(flag) == ~flag

\* initialize_services: _initialize_full runs when the flag is not set
InitializeServices(r) ==
    /\ req[r].pc = "initialize_services"
    /\ Exclusive(r)
    /\ IF NeedsInitialize(initialized)
       THEN /\ BeginInitialize(r)
            /\ req' = [req EXCEPT ![r].pc = "validate", ![r].ctx = "initialize_services",
                                  ![r].init_calls = @ + 1]
       ELSE /\ req' = [req EXCEPT ![r] = Initialized([req[r] EXCEPT !.init_calls = @ + 1])]
            /\ UNCHANGED <<shopify, ebay, meta, owner, orphaned>>
    /\ UNCHANGED <<instance, initialized, default_handlers_registered, lock, task_loop,
                   instances_made, gi_attempts, handed_out, down, busVars, schedVars,
                   streamVars>>

\* The mutation: the handler is appended without on()'s membership test
RegisterDefaultHandlers_appending(eh) ==
    IF ~default_handlers_registered
    THEN on_without_check(eh, ORDER_CREATED, DefaultHandler) ELSE eh

\* _register_default_handlers
RegisterDefaultHandlers(eh) ==
    IF ~default_handlers_registered THEN on(eh, ORDER_CREATED, DefaultHandler) ELSE eh

\* The Shopify validation request of the adapter r constructed is answered:
\* _initialize_full goes on to its end with the adapters the attributes hold now
\* (the eBay and Meta adapters validate without a request), or raises
ValidateDone(r) ==
    /\ req[r].pc = "validate"
    /\ Exclusive(r)
    /\ \E valid \in (IF FreeLoops = {} THEN {FALSE} ELSE BOOLEAN) :
        /\ shopify' = IF owner # r THEN shopify
                      ELSE [shopify EXCEPT !.init = IF valid THEN "ready" ELSE "failed"]
        /\ owner' = IF owner = r THEN NoOne ELSE owner
        /\ IF valid
           THEN LET l == FirstFree
                IN  /\ ebay' = "ready"
                    /\ meta' = "ready"
                    /\ event_handlers' = RegisterDefaultHandlers(event_handlers)
                    /\ default_handlers_registered' = TRUE
                    /\ loops' = [loops EXCEPT ![l] = [pc |-> "sleep", i |-> 0, left |-> 0]]
                    /\ task_loop' = l
                    /\ initialized' = TRUE
                    /\ down' = FALSE
                    /\ IF req[r].ctx = "get_instance"
                       THEN /\ lock' = Release(lock)
                            /\ req' = [req EXCEPT ![r] = Returned(req[r], TRUE, instances_made)]
                            /\ handed_out' = TRUE
                       ELSE /\ req' = [req EXCEPT ![r] = Initialized(req[r])]
                            /\ UNCHANGED <<lock, handed_out>>
           ELSE /\ initialized' = FALSE
                /\ lock' = IF req[r].ctx = "get_instance" THEN Release(lock) ELSE lock
                /\ req' = [req EXCEPT ![r] = Failed(req[r])]
                /\ UNCHANGED <<ebay, meta, event_handlers, default_handlers_registered,
                               loops, task_loop, handed_out, down>>
    /\ UNCHANGED <<instance, orphaned, instances_made, gi_attempts, stack, outcome, dup_on, tasks,
                   last_run, is_running, now, done_at, done_how, skipped, streamVars>>

\* The payload shopify_webhook publishes for a parsed body
OrderCreatedPayload(data) ==
    [order_id |-> Gid(JsonGet(data, "id")), source |-> "shopify", raw_data |-> data]

\* json.loads, the id check, the gid, the emit call
ParseBody(r) ==
    /\ req[r].pc = "parse"
    /\ Exclusive(r)
    /\ LET data == JsonLoads(req[r].body)
           q == [req[r] EXCEPT !.parsed = TRUE]
       IN  IF ~data.ok
           THEN req' = [req EXCEPT ![r] = [q EXCEPT !.pc = "done", !.status = 400]] /\ UNCHANGED stack
           ELSE IF data.type # "dict"
           THEN req' = [req EXCEPT ![r] = [q EXCEPT !.pc = "done", !.status = 500]] /\ UNCHANGED stack
           ELSE IF ~JsonTruthy(JsonGet(data, "id"))
           THEN req' = [req EXCEPT ![r] = [q EXCEPT !.pc = "done", !.status = 400]] /\ UNCHANGED stack
           ELSE IF shopify.init = "unset"
           THEN req' = [req EXCEPT ![r] = [q EXCEPT !.pc = "done", !.status = 503]] /\ UNCHANGED stack
           ELSE /\ stack' = [stack EXCEPT ![r] =
                        CallEmit(<<>>, ORDER_CREATED, OrderCreatedPayload(data))]
                /\ req' = [req EXCEPT ![r] = [q EXCEPT !.pc = "emit",
                        !.published = Append(@, [event |-> ORDER_CREATED,
                                                 data |-> OrderCreatedPayload(data)])]]
    /\ UNCHANGED <<instance, initialized, default_handlers_registered, lock, shopify,
                   task_loop, startVars, event_handlers, outcome, dup_on, schedVars,
                   streamVars>>

\* The emit call of the view has ended: 200, or 500 when an exception left it
WebhookEmitDone(r) ==
    /\ req[r].pc = "emit"
    /\ Exclusive(r)
    /\ stack[r] = <<>> \/ HasEscaped(stack[r])
    /\ req' = IF stack[r] = <<>> THEN Respond(r, 200) ELSE Respond(r, 500)
    /\ stack' = [stack EXCEPT ![r] = <<>>]
    /\ UNCHANGED <<instance, initialized, default_handlers_registered, lock, shopify,
                   task_loop, startVars, event_handlers, outcome, dup_on, schedVars,
                   streamVars>>

\* The response has been sent: the next request may arrive
WebhookClose(r) ==
    /\ req[r].pc = "done"
    /\ Exclusive(r)
    /\ req' = [req EXCEPT ![r] = IdleRequest]
    /\ UNCHANGED <<instance, initialized, default_handlers_registered, lock, shopify,
                   task_loop, startVars, busVars, schedVars, streamVars>>

InitWebhook == BusIdle /\ SchedIdle /\ WebIdle /\ StreamIdle

NextWebhook ==
    \/ \E r \in WebhookRequests, hmac \in HmacValues, topic \in TopicValues, body \in Bodies :
           WebhookReceive(r, hmac, topic, body)
    \/ \E r \in WebhookRequests : GetInstanceEnter(r)
    \/ \E r \in WebhookRequests : LockAcquired(r)
    \/ \E r \in WebhookRequests : GetInstanceLocked(r)
    \/ \E r \in WebhookRequests : InitializeServices(r)
    \/ \E r \in WebhookRequests : ValidateDone(r)
    \/ \E r \in WebhookRequests : ParseBody(r)
    \/ \E r \in WebhookRequests : Exclusive(r) /\ EmitLoopStep(r)
    \/ \E r \in WebhookRequests : Exclusive(r) /\ HandlerStartStep(r)
    \/ \E r \in WebhookRequests : Exclusive(r) /\ HandlerReturnStep(r)
    \/ \E r \in WebhookRequests : Exclusive(r) /\ EmitReturnStep(r)
    \/ \E r \in WebhookRequests : WebhookEmitDone(r)
    \/ \E r \in WebhookRequests : WebhookClose(r)

SpecWebhook == InitWebhook /\ [][NextWebhook]_vars

----------------------------------------------------------------------------
(* The life cycle of the orchestrator: callers await get_instance,           *)
(* initialize_services and shutdown in any interleaving asyncio allows,      *)
(* while the scheduler coroutines that start-up creates run one registered   *)
(* task.  A caller is a coroutine like a webhook request; its view says      *)
(* which method it awaits.  shutdown is suspended in `await self.task_loop`  *)
(* (pc "await_loop") and in `await service.client.close()` (pc "closing").   *)

\* No shutdown call stands in `await self.task_loop`.  The cancelled scheduler
\* coroutine and then the awaiting shutdown are run by the event loop as soon as
\* it is free: awaits that were pending may complete meanwhile, no new call is
\* made by then
NoneAwaitsLoop == \A q \in WebhookRequests : req[q].pc # "await_loop"

\* A coroutine awaits ShoppyShop.get_instance()
CallGetInstance(r) ==
    /\ req[r].pc = "idle"
    /\ NoneAwaitsLoop
    /\ Exclusive(r)
    /\ req' = [req EXCEPT ![r].view = "get_instance", ![r].pc = "get_instance"]
    /\ UNCHANGED <<instance, initialized, default_handlers_registered, lock, shopify,
                   task_loop, startVars, busVars, schedVars, streamVars>>

\* A coroutine that was handed the orchestrator awaits its initialize_services()
CallInitializeServices(r) ==
    /\ req[r].pc = "idle"
    /\ handed_out
    /\ NoneAwaitsLoop
    /\ Exclusive(r)
    /\ req' = [req EXCEPT ![r].view = "initialize_services", ![r].pc = "initialize_services"]
    /\ UNCHANGED <<instance, initialized, default_handlers_registered, lock, shopify,
                   task_loop, startVars, busVars, schedVars, streamVars>>

\* A coroutine that was handed the orchestrator awaits its shutdown()
CallShutdown(r) ==
    /\ req[r].pc = "idle"
    /\ handed_out
    /\ NoneAwaitsLoop
    /\ Exclusive(r)
    /\ req' = [req EXCEPT ![r].view = "shutdown", ![r].pc = "shutdown"]
    /\ UNCHANGED <<instance, initialized, default_handlers_registered, lock, shopify,
                   task_loop, startVars, busVars, schedVars, streamVars>>

\* The mutation: shutdown without its first test
ShutdownSkips_never(flag) == FALSE

\* if not ShoppyShop._initialized: return
ShutdownSkips(flag) == ~flag

\* The mutation: shutdown empties the handler table
KeptByShutdown_cleared(eh) == [k \in ServiceEvent |-> <<>>]

\* shutdown assigns nothing to self.event_handlers: the table after any of its steps
KeptByShutdown(eh) == eh

\* shutdown has returned
ShutDown(q) == [q EXCEPT !.pc = "done", !.result = "returned", !.loop = "none"]

\* shutdown from its for loop on: the client of the Shopify adapter is closed
\* (the eBay and Meta adapters have none), or, with no client, the flags are reset
CloseClients(r) ==
    IF shopify.client # "none"
    THEN /\ shopify' = [shopify EXCEPT !.client = "closing"]
         /\ req' = [req EXCEPT ![r].pc = "closing", ![r].loop = "none"]
         /\ UNCHANGED <<initialized, default_handlers_registered, down>>
    ELSE /\ initialized' = FALSE
         /\ default_handlers_registered' = FALSE
         /\ down' = TRUE
         /\ req' = [req EXCEPT ![r] = ShutDown(req[r])]
         /\ UNCHANGED shopify

\* shutdown up to await self.task_loop: nothing when the flag is not set;
\* else the scheduler coroutine is cancelled and awaited
Shutdown(r) ==
    /\ req[r].pc = "shutdown"
    /\ Exclusive(r)
    /\ IF ShutdownSkips(initialized)
       THEN /\ req' = [req EXCEPT ![r] = [ShutDown(req[r]) EXCEPT !.early = TRUE]]
            /\ UNCHANGED <<initialized, default_handlers_registered, shopify, loops, down>>
       ELSE IF task_loop # "none" /\ loops[task_loop].pc # "off"
       THEN /\ loops' = [loops EXCEPT ![task_loop].pc = "cancelling"]
            /\ req' = [req EXCEPT ![r].pc = "await_loop", ![r].loop = task_loop]
            /\ UNCHANGED <<initialized, default_handlers_registered, shopify, down>>
       ELSE /\ CloseClients(r)
            /\ UNCHANGED loops
    /\ event_handlers' = KeptByShutdown(event_handlers)
    /\ UNCHANGED <<instance, lock, task_loop, ebay, meta, owner, orphaned, instances_made,
                   gi_attempts, handed_out, stack, outcome, dup_on, tasks, last_run,
                   is_running, now, done_at, done_how, skipped, streamVars>>

\* CancelledError reaches the cancelled scheduler coroutine at the await it stands
\* at: the finally clause resets is_running and the loop breaks
SchedCancelDelivered(l) ==
    /\ loops[l].pc = "cancelling"
    /\ loops' = [loops EXCEPT ![l] = [pc |-> "off", i |-> 0, left |-> 0]]
    /\ IF loops[l].i > 0
       THEN /\ is_running' = [is_running EXCEPT ![loops[l].i] = FALSE]
            /\ done_how' = [done_how EXCEPT ![loops[l].i] = "cancelled"]
       ELSE UNCHANGED <<is_running, done_how>>
    /\ UNCHANGED <<tasks, last_run, now, done_at, skipped, busVars, webVars, streamVars>>

\* await self.task_loop returns: the awaited scheduler coroutine has ended
ShutdownLoopStopped(r) ==
    /\ req[r].pc = "await_loop"
    /\ loops[req[r].loop].pc = "off"
    /\ Exclusive(r)
    /\ CloseClients(r)
    /\ event_handlers' = KeptByShutdown(event_handlers)
    /\ UNCHANGED <<instance, lock, task_loop, ebay, meta, owner, orphaned, instances_made,
                   gi_attempts, handed_out, stack, outcome, dup_on, schedVars, streamVars>>

\* await service.client.close() returns, and shutdown resets the flags, or raises
ShutdownClosed(r) ==
    /\ req[r].pc = "closing"
    /\ Exclusive(r)
    /\ \E closed \in BOOLEAN :
        IF closed
        THEN /\ shopify' = IF shopify.client = "closing"
                           THEN [shopify EXCEPT !.client = "closed"] ELSE shopify
             /\ initialized' = FALSE
             /\ default_handlers_registered' = FALSE
             /\ down' = TRUE
             /\ req' = [req EXCEPT ![r] = ShutDown(req[r])]
        ELSE /\ req' = [req EXCEPT ![r].pc = "done", ![r].result = "raised"]
             /\ UNCHANGED <<shopify, initialized, default_handlers_registered, down>>
    /\ event_handlers' = KeptByShutdown(event_handlers)
    /\ UNCHANGED <<instance, lock, task_loop, ebay, meta, owner, orphaned, instances_made,
                   gi_attempts, handed_out, stack, outcome, dup_on, schedVars, streamVars>>

\* No caller stands between two of its awaits: the event loop can run a
\* scheduler coroutine
Quiet == \A r \in WebhookRequests : req[r].pc \in AtYield

\* The task list the life cycle is checked with: one task; the life cycle is
\* followed within one second, so the task is due once per scheduler coroutine
\* and whenever its callback raised
LifeTasks == <<[interval |-> PollSeconds + 1]>>

InitLife == BusIdle /\ WebIdle /\ StreamIdle /\ SchedIdleWith(LifeTasks)

NextLife ==
    \/ \E r \in WebhookRequests : CallGetInstance(r)
    \/ \E r \in WebhookRequests : CallInitializeServices(r)
    \/ \E r \in WebhookRequests : CallShutdown(r)
    \/ \E r \in WebhookRequests : GetInstanceEnter(r)
    \/ \E r \in WebhookRequests : LockAcquired(r)
    \/ \E r \in WebhookRequests : GetInstanceLocked(r)
    \/ \E r \in WebhookRequests : InitializeServices(r)
    \/ \E r \in WebhookRequests : ValidateDone(r)
    \/ \E r \in WebhookRequests : Shutdown(r)
    \/ \E r \in WebhookRequests : ShutdownLoopStopped(r)
    \/ \E r \in WebhookRequests : ShutdownClosed(r)
    \/ \E r \in WebhookRequests : WebhookClose(r)
    \/ \E l \in SchedulerLoops : Quiet /\ SchedCycle(l)
    \/ \E l \in SchedulerLoops : Quiet /\ SchedTaskReturns(l)
    \/ \E l \in SchedulerLoops : Quiet /\ SchedTaskRaises(l)
    \/ \E l \in SchedulerLoops : Quiet /\ SchedCancelDelivered(l)

SpecLife == InitLife /\ [][NextLife]_vars

----------------------------------------------------------------------------
(* service_status.  The view gets the orchestrator and awaits check_status  *)
(* of the three adapters in turn, inside one try.  The adapters of this     *)
(* repository define no check_status (the call raises AttributeError); an   *)
(* adapter that defines it returns its status or raises.  Both are covered: *)
(* each call ends with a status or with an exception.                       *)

\* The keys of the statuses dict, in the order the view fills it
Platforms == <<"shopify", "ebay", "meta">>

\* A GET of service_status arrives: the call of get_instance
StatusReceive(r) ==
    /\ req[r].pc = "idle"
    /\ Exclusive(r)
    /\ req' = [req EXCEPT ![r].view = "service_status", ![r].pc = "get_instance"]
    /\ UNCHANGED <<instance, initialized, default_handlers_registered, lock, shopify,
                   task_loop, startVars, busVars, schedVars, streamVars>>

\* await shop.<platform>.check_status() ends: the dict gets its next entry and
\* the view goes on, renders after the third, or the except clause answers 500
CheckStatusDone(r) ==
    /\ req[r].pc = "check_status"
    /\ Exclusive(r)
    /\ \E checked \in BOOLEAN :
        LET n == Len(req[r].statuses) + 1
            entry == [platform |-> Platforms[n], status |-> "ok"]
        IN  req' = [req EXCEPT ![r] =
                IF ~checked \/ shopify.init = "unset"
                THEN [@ EXCEPT !.pc = "done", !.status = 500, !.statuses = <<>>]
                ELSE IF n = Len(Platforms)
                THEN [@ EXCEPT !.pc = "done", !.status = 200,
                               !.statuses = Append(@, entry)]
                ELSE [@ EXCEPT !.statuses = Append(@, entry)]]
    /\ UNCHANGED <<instance, initialized, default_handlers_registered, lock, shopify,
                   task_loop, startVars, busVars, schedVars, streamVars>>

InitStatus == BusIdle /\ SchedIdle /\ WebIdle /\ StreamIdle

NextStatus ==
    \/ \E r \in WebhookRequests : StatusReceive(r)
    \/ \E r \in WebhookRequests : GetInstanceEnter(r)
    \/ \E r \in WebhookRequests : LockAcquired(r)
    \/ \E r \in WebhookRequests : GetInstanceLocked(r)
    \/ \E r \in WebhookRequests : ValidateDone(r)
    \/ \E r \in WebhookRequests : CheckStatusDone(r)
    \/ \E r \in WebhookRequests : WebhookClose(r)

SpecStatus == InitStatus /\ [][NextStatus]_vars

----------------------------------------------------------------------------
(* event_stream.  The orchestrator has been started by the ASGI lifespan;   *)
(* a publisher emits ORDER_UPDATED and ERROR events, other code registers   *)
(* an async handler for ORDER_UPDATED, and stream connections open, drain   *)
(* their queues and close whenever the publisher is not running.  conn is   *)
(* where event_generator stands: "none" before the request, "retry" at its  *)
(* first yield, "open" in its loop, "error" at the yield of its except      *)
(* clause, "closed" once the generator has finished.                        *)

\* The orchestrator after a successful start-up
Started ==
    /\ event_handlers = [k \in ServiceEvent |->
                            IF k = ORDER_CREATED THEN <<DefaultHandler>> ELSE <<>>]
    /\ stack = [p \in Procs |-> <<>>]
    /\ outcome = [p \in Procs |-> "idle"]
    /\ dup_on = FALSE
    /\ instance = TRUE
    /\ initialized = TRUE
    /\ default_handlers_registered = TRUE
    /\ lock = [holder |-> NoOne, waiters |-> <<>>]
    /\ shopify = [init |-> "ready", client |-> "open"]
    /\ ebay = "ready"
    /\ meta = "ready"
    /\ owner = NoOne
    /\ orphaned = FALSE
    /\ task_loop = "loop_a"
    /\ instances_made = 1
    /\ gi_attempts = 1
    /\ handed_out = TRUE
    /\ down = FALSE
    /\ req = [r \in WebhookRequests |-> IdleRequest]

\* What a connection yields that is not a notification
StreamItem(name) ==
    [event |-> name, type |-> "", message |-> "", kind |-> "", no |-> 0]

\* The kinds a connection registers for, in the order of its register_handler calls
StreamKinds == <<ORDER_CREATED, ORDER_UPDATED, ERROR>>

\* The mutation: the connection registers nothing for ERROR
RegisterHandlers_but_error(eh, c) ==
    on(on(eh, StreamKinds[1], StreamHandler(c, StreamKinds[1])),
       StreamKinds[2], StreamHandler(c, StreamKinds[2]))

\* The three register_handler calls of a connection
RegisterHandlers(eh, c) ==
    on(on(on(eh, StreamKinds[1], StreamHandler(c, StreamKinds[1])),
          StreamKinds[2], StreamHandler(c, StreamKinds[2])),
       StreamKinds[3], StreamHandler(c, StreamKinds[3]))

\* list.remove(handler): the first occurrence goes
Remove(s, h) ==
    LET i == CHOOSE j \in 1..Len(s) : s[j] = h /\ \A k \in 1..(j - 1) : s[k] # h
    IN  SubSeq(s, 1, i - 1) \o SubSeq(s, i + 1, Len(s))

\* The mutation: the clean-up forgets the handler for ERROR
RemoveHandlers_but_error(eh, c) ==
    [k \in ServiceEvent |->
        IF k # ERROR /\ StreamHandler(c, k) \in Range(eh[k])
        THEN Remove(eh[k], StreamHandler(c, k)) ELSE eh[k]]

\* finally: every handler of the connection that is still registered is removed
RemoveHandlers(eh, c) ==
    [k \in ServiceEvent |->
        IF StreamHandler(c, k) \in Range(eh[k])
        THEN Remove(eh[k], StreamHandler(c, k)) ELSE eh[k]]

\* The payloads the publisher passes to emit for each kind
StreamPayloads(event) ==
    IF event = ORDER_UPDATED
    THEN {[order_id |-> "12345", status |-> "processed", source |-> "shopify"]}
    ELSE {[event |-> ORDER_CREATED, error |-> "bang", handler |-> "notify_sync"]}

\* The request arrives: get_instance returns the instance, the response starts to
\* iterate event_generator, which makes its queue and yields the retry directive
StreamConnect(c) ==
    /\ conn[c] = "none"
    /\ Suspended(Publisher)
    /\ lock.holder = NoOne
    /\ instance
    /\ conn' = [conn EXCEPT ![c] = "retry"]
    /\ queue' = [queue EXCEPT ![c] = <<>>]
    /\ sent' = [sent EXCEPT ![c] = <<StreamItem("retry")>>]
    /\ put' = [put EXCEPT ![c] = <<>>]
    /\ UNCHANGED <<emit_no, last_kind, listeners, busVars, schedVars, webVars>>

\* The generator resumes: it registers its handlers and yields the open event
StreamRegister(c) ==
    /\ conn[c] = "retry"
    /\ Suspended(Publisher)
    /\ event_handlers' = RegisterHandlers(event_handlers, c)
    /\ conn' = [conn EXCEPT ![c] = "open"]
    /\ sent' = [sent EXCEPT ![c] = Append(@, StreamItem("open"))]
    /\ UNCHANGED <<queue, put, emit_no, last_kind, listeners, stack, outcome, dup_on, schedVars, webVars>>

\* The mutation: a queue that hands out its newest item
QueueGet_newest(q) == q[Len(q)]

\* asyncio.Queue.get: the item at the head of the queue
QueueGet(q) == Head(q)

\* queue.get() returns the oldest notification and the generator yields it
StreamNext(c) ==
    /\ conn[c] = "open"
    /\ Suspended(Publisher)
    /\ queue[c] # <<>>
    /\ sent' = [sent EXCEPT ![c] = Append(@, QueueGet(queue[c]))]
    /\ queue' = [queue EXCEPT ![c] = Tail(@)]
    /\ UNCHANGED <<conn, put, emit_no, last_kind, listeners, busVars, schedVars, webVars>>

\* An Exception is raised in the loop: the except clause yields the error event
StreamError(c) ==
    /\ conn[c] = "open"
    /\ Suspended(Publisher)
    /\ conn' = [conn EXCEPT ![c] = "error"]
    /\ sent' = [sent EXCEPT ![c] = Append(@, StreamItem("error"))]
    /\ UNCHANGED <<queue, put, emit_no, last_kind, listeners, busVars, schedVars, webVars>>

\* The generator ends: the client went away or the request was cancelled (the
\* exception is raised at the yield or await it stands at), or it resumes after
\* the error event.  Inside the try the finally clause runs.
StreamClose(c) ==
    /\ conn[c] \in {"retry", "open", "error"}
    /\ Suspended(Publisher)
    /\ event_handlers' = IF conn[c] = "retry" THEN event_handlers
                         ELSE RemoveHandlers(event_handlers, c)
    /\ conn' = [conn EXCEPT ![c] = "closed"]
    /\ UNCHANGED <<queue, sent, put, emit_no, last_kind, listeners, stack, outcome, dup_on,
                   schedVars, webVars>>

\* The publisher calls emit
StreamPublish(event, data) ==
    /\ stack[Publisher] = <<>>
    /\ outcome[Publisher] # "running"
    /\ emit_no < MaxEmits
    /\ stack' = [stack EXCEPT ![Publisher] = CallEmit(<<>>, event, data)]
    /\ outcome' = [outcome EXCEPT ![Publisher] = "running"]
    /\ emit_no' = emit_no + 1
    /\ last_kind' = event
    /\ listeners' = {c \in Conns : conn[c] \in {"open", "error"}}
    /\ UNCHANGED <<conn, queue, sent, put, event_handlers, dup_on, schedVars, webVars>>

\* The scheduler coroutine start-up created, with no task to run
SchedStarted ==
    /\ TasksIdle(<<>>)
    /\ loops = [l \in SchedulerLoops |->
                    IF l = "loop_a" THEN [pc |-> "sleep", i |-> 0, left |-> 0]
                    ELSE [pc |-> "off", i |-> 0, left |-> 0]]

InitStream == Started /\ SchedStarted /\ StreamIdle

NextStream ==
    \/ \E c \in Conns : StreamConnect(c)
    \/ \E c \in Conns : StreamRegister(c)
    \/ \E c \in Conns : StreamNext(c)
    \/ \E c \in Conns : StreamError(c)
    \/ \E c \in Conns : StreamClose(c)
    \/ \E k \in {ORDER_UPDATED, ERROR} : \E d \in StreamPayloads(k) : StreamPublish(k, d)
    \/ BusOn(ORDER_UPDATED, AsyncStub)
    \/ EmitLoopStep(Publisher)
    \/ EmitAwaitStep(Publisher)
    \/ EmitReturnStep(Publisher)
    \/ BusEmitReturned

SpecStream == InitStream /\ [][NextStream]_vars

----------------------------------------------------------------------------
(* Repeated deliveries.  The orchestrator has been started; Shopify         *)
(* delivers one valid orders/create webhook again and again, to two         *)
(* requests that may be in progress together, and other code may register   *)
(* an async handler for ORDER_CREATED that suspends at an await.            *)

\* Every coroutine is suspended or has ended: other code can run
AllYielded ==
    \A r \in WebhookRequests :
        IF req[r].pc = "emit" THEN stack[r] # <<>> /\ Suspended(r)
        ELSE req[r].pc \in AtYield

InitDeliveries == Started /\ SchedStarted /\ StreamIdle

NextDeliveries ==
    \/ \E r \in WebhookRequests : WebhookReceive(r, "mock-hmac", "orders/create", BodyOrder)
    \/ \E r \in WebhookRequests : GetInstanceEnter(r)
    \/ \E r \in WebhookRequests : GetInstanceLocked(r)
    \/ \E r \in WebhookRequests : InitializeServices(r)
    \/ \E r \in WebhookRequests : ParseBody(r)
    \/ \E r \in WebhookRequests : Exclusive(r) /\ EmitLoopStep(r)
    \/ \E r \in WebhookRequests : Exclusive(r) /\ EmitAwaitStep(r)
    \/ \E r \in WebhookRequests : Exclusive(r) /\ HandlerStartStep(r)
    \/ \E r \in WebhookRequests : Exclusive(r) /\ HandlerReturnStep(r)
    \/ \E r \in WebhookRequests : Exclusive(r) /\ EmitReturnStep(r)
    \/ \E r \in WebhookRequests : WebhookEmitDone(r)
    \/ \E r \in WebhookRequests : WebhookClose(r)
    \/ AllYielded /\ BusOn(ORDER_CREATED, AsyncStub)

SpecDeliveries == InitDeliveries /\ [][NextDeliveries]_vars

----------------------------------------------------------------------------
(* Orders and stream connections.  The orchestrator has been started;       *)
(* stream connections open, drain their queues and close while no request   *)
(* is between two yields, and valid orders/create webhooks arrive.          *)

\* The queue of every connection has room for the notifications of one more order
RoomForOrder == \A c \in Conns : Len(put[c]) + 2 <= MaxPut

InitFanout == Started /\ SchedStarted /\ StreamIdle

NextFanout ==
    \/ \E c \in Conns : AllYielded /\ StreamConnect(c)
    \/ \E c \in Conns : AllYielded /\ StreamRegister(c)
    \/ \E c \in Conns : AllYielded /\ StreamNext(c)
    \/ \E c \in Conns : AllYielded /\ StreamClose(c)
    \/ \E r \in WebhookRequests :
           RoomForOrder /\ WebhookReceive(r, "mock-hmac", "orders/create", BodyOrder)
    \/ \E r \in WebhookRequests : GetInstanceEnter(r)
    \/ \E r \in WebhookRequests : GetInstanceLocked(r)
    \/ \E r \in WebhookRequests : InitializeServices(r)
    \/ \E r \in WebhookRequests : ParseBody(r)
    \/ \E r \in WebhookRequests : Exclusive(r) /\ EmitLoopStep(r)
    \/ \E r \in WebhookRequests : Exclusive(r) /\ HandlerStartStep(r)
    \/ \E r \in WebhookRequests : Exclusive(r) /\ HandlerReturnStep(r)
    \/ \E r \in WebhookRequests : Exclusive(r) /\ EmitReturnStep(r)
    \/ \E r \in WebhookRequests : WebhookEmitDone(r)
    \/ \E r \in WebhookRequests : WebhookClose(r)

SpecFanout == InitFanout /\ [][NextFanout]_vars

----------------------------------------------------------------------------
(* Webhooks with application handlers.  The orchestrator has been started;  *)
(* other code registers handlers for ORDER_CREATED and ERROR with on()      *)
(* while no request is between two yields, and webhook requests of every    *)
(* kind arrive one after another.                                           *)

\* The kinds other code registers handlers for
HookedEvents == {ORDER_CREATED, ERROR}

\* The coroutine that serves the requests
HookRequests == {"req_a"}

InitHooks == Started /\ SchedStarted /\ StreamIdle

NextHooks ==
    \/ \E k \in HookedEvents, h \in StubHandlers : AllYielded /\ BusOn(k, h)
    \/ \E r \in HookRequests, hmac \in HmacValues, topic \in TopicValues, body \in Bodies :
           WebhookReceive(r, hmac, topic, body)
    \/ \E r \in HookRequests : GetInstanceEnter(r)
    \/ \E r \in HookRequests : GetInstanceLocked(r)
    \/ \E r \in HookRequests : InitializeServices(r)
    \/ \E r \in HookRequests : ParseBody(r)
    \/ \E r \in HookRequests : Exclusive(r) /\ EmitLoopStep(r)
    \/ \E r \in HookRequests : Exclusive(r) /\ EmitAwaitStep(r)
    \/ \E r \in HookRequests : Exclusive(r) /\ HandlerStartStep(r)
    \/ \E r \in HookRequests : Exclusive(r) /\ HandlerReturnStep(r)
    \/ \E r \in HookRequests : Exclusive(r) /\ EmitReturnStep(r)
    \/ \E r \in HookRequests : WebhookEmitDone(r)
    \/ \E r \in HookRequests : WebhookClose(r)

SpecHooks == InitHooks /\ [][NextHooks]_vars

----------------------------------------------------------------------------
(* The default order handler.  The orchestrator has been started; a         *)
(* publisher calls emit(ORDER_CREATED, data) with payloads of every shape   *)
(* the handler tells apart, and other code registers handlers for ERROR     *)
(* whenever the publisher is not running.                                   *)

\* The payload the webhook view makes for an order whose raw data has an id
GoodOrder == OrderCreatedPayload(JsonLoads(BodyOrder))

\* The same payload without its source
OrderNoSource == [order_id |-> GoodOrder.order_id, raw_data |-> GoodOrder.raw_data]

\* The same payload without its order_id
OrderNoOrderId == [source |-> "shopify", raw_data |-> GoodOrder.raw_data]

\* A shopify payload whose raw data has no id, and one whose id is 0
OrderRawNoId ==
    [order_id |-> GoodOrder.order_id, source |-> "shopify", raw_data |-> JsonLoads(BodyNoId)]

OrderRawZeroId ==
    [order_id |-> GoodOrder.order_id, source |-> "shopify", raw_data |-> JsonLoads(BodyZeroId)]

BadOrders == {OrderNoSource, OrderNoOrderId, OrderRawNoId, OrderRawZeroId}

OrderPayloads == {GoodOrder} \cup BadOrders

InitOrders == Started /\ SchedStarted /\ StreamIdle

NextOrders ==
    \/ \E h \in StubHandlers : BusOn(ERROR, h)
    \/ \E d \in OrderPayloads : BusEmit(ORDER_CREATED, d)
    \/ EmitLoopStep(Publisher)
    \/ EmitAwaitStep(Publisher)
    \/ HandlerStartStep(Publisher)
    \/ HandlerReturnStep(Publisher)
    \/ EmitReturnStep(Publisher)
    \/ BusEmitReturned
    \/ BusEmitRaised

SpecOrders == InitOrders /\ [][NextOrders]_vars

----------------------------------------------------------------------------
(* Properties of the event bus, checked under SpecBus *)

\* The emit calls in progress, each with the live list it iterates
EmitFramesOf(p) == {i \in 1..Len(stack[p]) : stack[p][i].fn = "emit"}

C2_ErrorPublishedForEachRaise ==
    \A p \in Procs : \A i \in EmitFramesOf(p) :
        LET f == stack[p][i]
            payload(n) == [event |-> f.event, error |-> f.raised[n].error,
                           handler |-> HandlerName(f.raised[n].handler)]
        IN  /\ Len(f.delivered) = (IF f.phase = "except" THEN Len(f.raised) - 1 ELSE Len(f.raised))
            /\ f.phase = "except" =>
                   /\ i < Len(stack[p])
                   /\ stack[p][i + 1].fn = "emit"
                   /\ stack[p][i + 1].event = ERROR
                   /\ stack[p][i + 1].data = payload(Len(f.raised))
            /\ \A n \in 1..Len(f.delivered) :
                   /\ f.delivered[n].event = ERROR
                   /\ f.delivered[n].data = payload(n)
                   /\ IsPrefix(f.delivered[n].regs, f.delivered[n].called)

\* C2 witness: an emit call of a kind other than ERROR is returning after one of
\* its handlers raised, and the ERROR event published for it reached a handler.
C2_Witness ==
    \E p \in Procs : \E i \in EmitFramesOf(p) :
        LET f == stack[p][i]
        IN  /\ f.phase = "done"
            /\ f.event = ORDER_CREATED
            /\ f.raised # <<>>
            /\ Len(f.delivered) = Len(f.raised)
            /\ f.delivered[1].called # <<>>

\* C3: no ERROR event is published for a handler that raised while an ERROR event
\* was being delivered: no emit(ERROR) call is made from the except clause of an
\* emit(ERROR) call.
C3_NoErrorToErrorChain ==
    \A p \in Procs : \A i \in EmitFramesOf(p) :
        (i > 1 /\ stack[p][i].event = ERROR)
            => ~(stack[p][i - 1].fn = "emit" /\ stack[p][i - 1].event = ERROR)

\* C4: whichever handlers raise, emit returns normally: no exception reaches the
\* publisher.
C4_NoExceptionLeavesEmit ==
    \A p \in Procs : ~HasEscaped(stack[p]) /\ outcome[p] # "raised"

\* C5: no handler occurs twice in the registration list of a kind, and on() with a
\* handler that is already registered for the kind leaves the table unchanged.
C5_OnIsIdempotent ==
    /\ [](\A k \in ServiceEvent : NoDuplicates(event_handlers[k]))
    /\ [][\A k \in ServiceEvent : \A h \in StubHandlers :
              (BusOn(k, h) /\ h \in Range(event_handlers[k]))
                  => event_handlers' = event_handlers]_vars

\* C5 witness: on() has been called with a handler already registered, and two
\* handlers are registered for one kind.
C5_Witness ==
    /\ dup_on
    /\ \E k \in ServiceEvent : Len(event_handlers[k]) = 2

----------------------------------------------------------------------------
(* Properties of the task scheduler, checked under SpecSched *)

\* The scheduler coroutines that await an execution of task t
RunningIn(t) == {l \in SchedulerLoops : loops[l].pc = "run" /\ loops[l].i = t}

\* C6: at most one execution of a scheduled task is in flight, whichever scheduler
\* loop checks it and also when its interval has elapsed; is_running tells
\* whether one is.
C6_NoOverlappingExecution ==
    \A t \in TaskIds :
        /\ Cardinality(RunningIn(t)) <= 1
        /\ is_running[t] <=> RunningIn(t) # {}

\* C6 witness: a task is running, it is due again, and a scheduler loop has found
\* a due task running and left it alone.
C6_Witness ==
    /\ skipped
    /\ \E t \in TaskIds : is_running[t] /\ Due(t) /\ Cardinality(RunningIn(t)) = 1

\* C7: when an execution of a task ends, whether it returned or raised, the task
\* is idle with last_run equal to the completion time, and the task is started
\* again only when a full interval has passed since that completion.
C7_LastRunSetOnEveryCompletion ==
    /\ [](\A t \in TaskIds :
             (done_how[t] \in {"returned", "raised"} /\ ~is_running[t])
                 => last_run[t] = done_at[t])
    /\ [][\A t \in TaskIds :
             (~is_running[t] /\ is_running'[t] /\ done_how[t] \in {"returned", "raised"})
                 => now - done_at[t] >= tasks[t].interval]_vars

----------------------------------------------------------------------------
(* Properties of the webhook view, checked under SpecWebhook.  A header     *)
(* counts as present when the request carries it with a value; a request    *)
(* is observed from its arrival until its response has been sent.           *)

HeaderPresent(v) == v # NoHeader /\ v # ""

\* The parsed body is a JSON object with an id member
HasId(body) ==
    /\ JsonLoads(body).ok
    /\ JsonLoads(body).type = "dict"
    /\ \E kv \in JsonLoads(body).items : kv[1] = "id"

\* The publication the webhook of an order is to make
ExpectedPublication(body) ==
    [event |-> ORDER_CREATED,
     data |-> [order_id |-> "gid://shopify/Order/" \o PyFormat(JsonGet(JsonLoads(body), "id")),
               source |-> "shopify",
               raw_data |-> JsonLoads(body)]]

\* The request is an orders/create webhook with both headers whose start-up calls
\* did not raise, and it has been answered
AnsweredOrderWebhook(r) ==
    /\ req[r].pc = "done"
    /\ HeaderPresent(req[r].hmac)
    /\ req[r].topic = "orders/create"
    /\ ~req[r].init_failed

C9_MissingHeaderRejected ==
    \A r \in WebhookRequests :
        (/\ req[r].pc # "idle"
         /\ ~HeaderPresent(req[r].hmac) \/ ~HeaderPresent(req[r].topic))
        => /\ req[r].pc = "done"
           /\ req[r].status = 401
           /\ ~req[r].touched
           /\ req[r].init_calls = 0
           /\ ~req[r].parsed
           /\ req[r].published = <<>>
           /\ stack[r] = <<>>

\* A webhook with a valid order body but no signature header was answered while the
\* orchestrator was initialized
C9_Witness ==
    \E r \in WebhookRequests :
        /\ req[r].pc = "done"
        /\ req[r].hmac = NoHeader
        /\ req[r].topic = "orders/create"
        /\ req[r].body = BodyOrder
        /\ req[r].status = 401
        /\ initialized

\* C10: a webhook with both headers and a topic other than orders/create is
\* answered 200 at once: it publishes no event and does not touch the orchestrator
\* (no get_instance, no initialize_services, no parsing of the body).
C10_OtherTopicIgnored ==
    \A r \in WebhookRequests :
        (/\ req[r].pc # "idle"
         /\ HeaderPresent(req[r].hmac)
         /\ HeaderPresent(req[r].topic)
         /\ req[r].topic # "orders/create")
        => /\ req[r].pc = "done"
           /\ req[r].status = 200
           /\ ~req[r].touched
           /\ req[r].init_calls = 0
           /\ ~req[r].parsed
           /\ req[r].published = <<>>
           /\ stack[r] = <<>>

\* A products/create webhook with a valid order body was answered before any
\* instance of the orchestrator existed
C10_Witness ==
    \E r \in WebhookRequests :
        /\ req[r].pc = "done"
        /\ req[r].hmac = "mock-hmac"
        /\ req[r].topic = "products/create"
        /\ req[r].body = BodyOrder
        /\ req[r].status = 200
        /\ ~instance

\* C11: an orders/create webhook with both headers whose start-up cannot complete,
\* in get_instance or in initialize_services, is answered 503 and publishes no event.
C11_StartupFailureAnswered503 ==
    \A r \in WebhookRequests :
        (/\ req[r].pc = "done"
         /\ HeaderPresent(req[r].hmac)
         /\ req[r].topic = "orders/create"
         /\ req[r].init_failed)
        => /\ req[r].status = 503
           /\ req[r].published = <<>>

\* C12: an orders/create webhook that passed the header, topic and start-up checks
\* and whose body is not JSON, or is JSON without an id member (an object without
\* id, or a value that is not an object), is answered 400 and publishes no event.
C12_BodyWithoutIdAnswered400 ==
    \A r \in WebhookRequests :
        (/\ req[r].pc = "done"
         /\ req[r].parsed
         /\ ~HasId(req[r].body))
        => /\ req[r].status = 400
           /\ req[r].published = <<>>

----------------------------------------------------------------------------
(* Properties of the stream connections, checked under SpecStream *)

\* Everything that was ever put into the queue of a connection, in order
Enqueued(c) == SubSeq(sent[c], 3, Len(sent[c])) \o queue[c]

\* The notifications a connection got for the publisher's last emit call
GotForLastEmit(c) ==
    {i \in 1..Len(Enqueued(c)) :
        Enqueued(c)[i].no = emit_no /\ Enqueued(c)[i].kind = last_kind}

\* C13: when an emit call has returned, every connection that was registered when
\* the call began and is still open has exactly one notification for it in its
\* queue, whatever other connections did in the meantime, closing included.
C13_EveryOpenConnectionNotifiedOnce ==
    outcome[Publisher] = "returned"
    => \A c \in listeners :
           conn[c] = "open" => Cardinality(GotForLastEmit(c)) = 1

\* C14: once a connection has ended, whether at a yield, at its queue or after
\* the error event, none of its handlers is registered and nothing is put into
\* its queue any more.
C14_ClosedConnectionUnregistered ==
    /\ [](\A c \in Conns : conn[c] = "closed"
            => \A k \in ServiceEvent : StreamHandler(c, k) \notin Range(event_handlers[k]))
    /\ [][\A c \in Conns : conn[c] = "closed" => queue'[c] = queue[c]]_vars

\* A connection that was registered has ended after its error event, and an emit
\* that began after its end has put a notification into the other connection's queue
C14_Witness ==
    \E a, b \in Conns :
        /\ conn[a] = "closed"
        /\ StreamItem("error") \in Range(sent[a])
        /\ emit_no > 0
        /\ a \notin listeners
        /\ b \in listeners
        /\ queue[b] # <<>>

----------------------------------------------------------------------------
(* Start-up and shutdown of the orchestrator *)

\* C15: however many callers enter get_instance together, one orchestrator is
\* constructed and get_instance starts one initialization; every caller that
\* has its answer from get_instance was handed that one orchestrator.
C15_OneInstanceOneAttempt ==
    /\ instances_made <= 1
    /\ gi_attempts <= 1
    /\ \A r \in WebhookRequests :
           req[r].gi # "" => instances_made = 1 /\ gi_attempts = 1
    /\ \A r, q \in WebhookRequests :
           req[r].ref # 0 /\ req[q].ref # 0 => req[r].ref = req[q].ref

\* Two callers were in get_instance together: one waited for the lock while
\* the other initialized, and both were handed the orchestrator
C15_Witness ==
    \E r, q \in WebhookRequests :
        /\ r # q
        /\ req[r].ref = 1 /\ ~req[r].waited
        /\ req[q].ref = 1 /\ req[q].waited

\* C16: a call of get_instance, and a call of initialize_services, that finds
\* the orchestrator not initialized starts an initialization attempt.
C16_FailedStartupRetried ==
    [][\A r \in WebhookRequests :
          (/\ req[r].pc \in {"locked", "initialize_services"}
           /\ ~initialized
           /\ req'[r].pc # req[r].pc) => req'[r].pc = "validate"]_vars

\* C17: get_instance never returns, to any caller, the orchestrator with the
\* initialized flag false.
C17_NeverReturnedUninitialized ==
    \A r \in WebhookRequests : req[r].gi # "uninitialized"

\* C18: in every reachable state the initialized flag is set only if the
\* Shopify, eBay and Meta adapters the orchestrator holds have all completed
\* initialize successfully.
C18_InitializedOnlyWithAdaptersReady ==
    initialized => shopify.init = "ready" /\ ebay = "ready" /\ meta = "ready"

\* C19: a shutdown call made when no start-up has succeeded since the last
\* completed shutdown, or ever, returns without an error and changes nothing:
\* no scheduler coroutine is cancelled, no client is closed, no flag is written.
C19_ShutdownIdempotent ==
    [][\A r \in WebhookRequests :
          (req[r].pc = "shutdown" /\ down /\ req'[r].pc # "shutdown")
          => /\ req'[r].pc = "done"
             /\ req'[r].result = "returned"
             /\ UNCHANGED <<busVars, schedVars, streamVars, instance, initialized,
                            default_handlers_registered, lock, shopify, task_loop,
                            startVars>>]_vars

\* A shutdown call has returned at its first test, after an earlier shutdown
\* had closed the client
C19_Witness ==
    \E r \in WebhookRequests :
        /\ req[r].view = "shutdown" /\ req[r].pc = "done" /\ req[r].early
        /\ shopify.client = "closed"
        /\ down

\* C20: no task callback is running while, or after, the client of the
\* orchestrator's adapter is closed by shutdown.
C20_NoCallbackOnceClosing ==
    shopify.client \in {"closing", "closed"} =>
        \A l \in SchedulerLoops : loops[l].pc # "run"

\* C21: a call of get_instance or of initialize_services that finds the
\* orchestrator initialized returns and leaves the adapters, the scheduler
\* coroutines and the handler table as they are.
C21_StartupIdempotent ==
    [][\A r \in WebhookRequests :
          (/\ req[r].pc \in {"locked", "initialize_services"}
           /\ initialized
           /\ req'[r].pc # req[r].pc)
          => /\ req'[r].pc # "validate"
             /\ UNCHANGED <<shopify, ebay, meta, owner, loops, task_loop, event_handlers,
                            initialized, default_handlers_registered>>]_vars

\* A get_instance call and an initialize_services call have both returned
\* without an initialization of their own, on the initialized orchestrator
C21_Witness ==
    \E r, q \in WebhookRequests :
        /\ initialized
        /\ req[r].view = "get_instance" /\ req[r].result = "returned" /\ req[r].ctx = ""
        /\ req[q].view = "initialize_services" /\ req[q].result = "returned"
        /\ req[q].ctx = ""

\* C23: when an initialization attempt fails, the orchestrator is left
\* un-initialized, with no scheduler coroutine, and with no initialized adapter
\* that holds an open client.
C23_FailedStartupLeavesNothing ==
    [][\A r \in WebhookRequests :
          (req[r].pc = "validate" /\ ~req[r].init_failed /\ req'[r].init_failed)
          => /\ ~initialized'
             /\ \A l \in SchedulerLoops : loops'[l].pc = "off"
             /\ ~(shopify'.init = "ready" /\ shopify'.client = "open")]_vars

\* C24: when shutdown returns, no adapter client that a start-up attempt
\* opened is still open: neither the client of the adapter the orchestrator
\* holds nor the client of an adapter that was replaced.
C24_ShutdownClosesEveryClient ==
    [][\A r \in WebhookRequests :
          (/\ req[r].view = "shutdown"
           /\ req[r].pc # "done"
           /\ req'[r].pc = "done"
           /\ req'[r].result = "returned")
          => ~orphaned' /\ shopify'.client # "open"]_vars

----------------------------------------------------------------------------
(* service_status *)

\* C22: every status request that was handed the orchestrator is answered
\* 200 with a mapping that has an entry for each of the three platforms,
\* whatever the outcome of each adapter's status check.
C22_StatusReportsEveryPlatform ==
    \A r \in WebhookRequests :
        (req[r].view = "service_status" /\ req[r].pc = "done" /\ req[r].gi # "")
        => /\ req[r].status = 200
           /\ {req[r].statuses[i].platform : i \in 1..Len(req[r].statuses)}
                  = Range(Platforms)

----------------------------------------------------------------------------
(* Concurrent emit calls *)

\* The emit call of request p has invoked a handler and its loop has not ended
InHandlers(p) ==
    /\ stack[p] # <<>>
    /\ stack[p][1].fn = "emit"
    /\ stack[p][1].called # <<>>
    /\ stack[p][1].phase # "done"

\* C25: the handler invocations of the emit calls of two requests are never
\* in progress together.
C25_EmitCallsNotInterleaved ==
    \A r, q \in WebhookRequests : r # q => ~(InHandlers(r) /\ InHandlers(q))

----------------------------------------------------------------------------
(* Repeated deliveries *)

\* The request carries a body the view accepts: a JSON object with a truthy id
ValidOrder(r) == HasId(req[r].body) /\ JsonTruthy(JsonGet(JsonLoads(req[r].body), "id"))

\* C30: deliveries of the same valid orders/create webhook are each answered
\* 200 and each publish one ORDER_CREATED event, with equal payloads, and
\* _handle_order_created never enters its except clause for them.
C30_EveryDeliveryPublished ==
    /\ \A r, q \in WebhookRequests :
           (/\ AnsweredOrderWebhook(r) /\ ValidOrder(r)
            /\ AnsweredOrderWebhook(q) /\ req[q].body = req[r].body)
           => /\ req[r].status = 200
              /\ Len(req[r].published) = 1
              /\ req[r].published = req[q].published
              /\ req[r].published[1] = ExpectedPublication(req[r].body)
    /\ \A r \in WebhookRequests : \A i \in 1..Len(stack[r]) :
           stack[r][i].fn = DefaultHandler => stack[r][i].phase # "except"

\* The same webhook was delivered twice and both deliveries have been answered
\* 200 after one publication each
C30_Witness ==
    \E r, q \in WebhookRequests :
        /\ r # q
        /\ AnsweredOrderWebhook(r) /\ AnsweredOrderWebhook(q)
        /\ req[r].body = BodyOrder /\ req[q].body = BodyOrder
        /\ req[r].status = 200 /\ req[q].status = 200
        /\ Len(req[r].published) = 1 /\ Len(req[q].published) = 1

----------------------------------------------------------------------------
(* The scheduler loop: cancellation and task errors *)

\* C26: no execution of a task callback is ended by the cancellation of the
\* scheduler loop; a callback that was being awaited completes.
C26_NoCallbackAbandoned == \A t \in TaskIds : done_how[t] # "cancelled"

\* The first task after position t that is due and not running when the
\* execution of task t ends (Len(tasks) + 1 when there is none)
NextDue(t) ==
    LET later == {k \in TaskIds : k > t /\ Due(k) /\ ~is_running[k]}
    IN  IF later = {} THEN Len(tasks) + 1
        ELSE CHOOSE k \in later : \A j \in later : k <= j

\* C27: when the execution of a task ends by an error or after any length of
\* time, the loop is not stopped: in the same pass it starts the first later
\* task that is due and not running, and sleeps for the next pass if there is none.
C27_TaskErrorDoesNotStopLoop ==
    [][\A l \in SchedulerLoops :
          (/\ loops[l].pc = "run"
           /\ loops'[l] # loops[l]
           /\ done_how'[loops[l].i] # "cancelled")
          => /\ loops'[l].pc # "off"
             /\ IF NextDue(loops[l].i) <= Len(tasks)
                THEN loops'[l].pc = "run" /\ loops'[l].i = NextDue(loops[l].i)
                ELSE loops'[l].pc = "sleep"]_vars

\* A task has raised after time had passed, and the loop is running the task
\* after it in the same pass
C27_Witness ==
    \E l \in SchedulerLoops :
        /\ loops[l].pc = "run"
        /\ loops[l].i = 2
        /\ done_how[1] = "raised"
        /\ done_at[1] = now
        /\ now > 0

----------------------------------------------------------------------------
(* The output of a stream connection, checked under SpecStream *)

\* The notification events among what connection c has yielded, in order
Notifications(c) == SelectSeq(sent[c], LAMBDA x : x.event = "notification")

\* C28: what a connection has yielded as notifications, followed by what its
\* queue still holds, is what was put into the queue, in the order it was put
\* (first in, first out, nothing lost, nothing twice); and a connection
\* yields a notification only by taking it from its queue, which is not empty then.
C28_NotificationsFifo ==
    /\ [](\A c \in Conns : Notifications(c) \o queue[c] = put[c])
    /\ [][\A c \in Conns :
             Notifications(c)' # Notifications(c)
                 => /\ queue[c] # <<>>
                    /\ Len(queue'[c]) = Len(queue[c]) - 1
                    /\ Len(Notifications(c)') = Len(Notifications(c)) + 1]_vars

\* A connection has yielded two different notifications, all that was put into
\* its queue
C28_Witness ==
    \E c \in Conns :
        /\ Len(put[c]) = 2
        /\ put[c][1] # put[c][2]
        /\ Notifications(c) = put[c]

\* sent[c] begins with the retry directive and the open event
StartsWithRetryOpen(c) ==
    /\ sent[c] # <<>> => sent[c][1] = StreamItem("retry")
    /\ Len(sent[c]) >= 2 => sent[c][2] = StreamItem("open")

\* The handlers of connection c are registered when it yields the open event,
\* and nothing is in its queue before that
RegisteredBeforeOpen ==
    /\ [](\A c \in Conns : conn[c] = "retry" => queue[c] = <<>> /\ put[c] = <<>>)
    /\ [][\A c \in Conns :
             (StreamItem("open") \notin Range(sent[c]) /\ StreamItem("open") \in Range(sent'[c]))
                 => \A i \in 1..Len(StreamKinds) :
                        StreamHandler(c, StreamKinds[i]) \in Range(event_handlers'[StreamKinds[i]])]_vars

\* C29 as amended: the output of a connection is the retry directive, one
\* open event, then notification events, and at the very end at most one error
\* event, which the except clause yields before the generator finishes; the
\* handlers are registered before the open event is yielded.
C29_RetryOpenThenNotifications ==
    /\ [](\A c \in Conns :
             /\ StartsWithRetryOpen(c)
             /\ \A i \in 3..Len(sent[c]) :
                    \/ sent[c][i].event = "notification"
                    \/ /\ sent[c][i] = StreamItem("error")
                       /\ i = Len(sent[c])
                       /\ conn[c] \in {"error", "closed"})
    /\ RegisteredBeforeOpen

\* C29 as stated: after the open event a connection yields notification events only.
C29_OnlyNotificationsAfterOpen ==
    \A c \in Conns :
        /\ StartsWithRetryOpen(c)
        /\ \A i \in 3..Len(sent[c]) : sent[c][i].event = "notification"

\* A connection has yielded the retry directive, the open event, a
\* notification and then the error event
C29_Witness ==
    \E c \in Conns :
        /\ Len(sent[c]) = 4
        /\ sent[c][3].event = "notification"
        /\ sent[c][4] = StreamItem("error")

----------------------------------------------------------------------------
(* Determinism of emit, checked under SpecTwin *)

\* Two histories of which one continues the other
IsPrefixEither(s, t) == IsPrefix(s, t) \/ IsPrefix(t, s)

\* Frame i of the two calls stands for the same emit: the same kind and payload,
\* made at the same place of the same enclosing calls
SamePath(i) ==
    \A j \in 1..i :
        /\ stack[Publisher][j].fn = "emit" /\ stack[Second][j].fn = "emit"
        /\ stack[Publisher][j].event = stack[Second][j].event
        /\ stack[Publisher][j].data = stack[Second][j].data
        /\ j < i => stack[Publisher][j].idx = stack[Second][j].idx

----------------------------------------------------------------------------
(* When the scheduler starts a task, checked under SpecSched *)

\* Loop l starts task t in this step
Starts(l, t) ==
    /\ loops'[l].pc = "run" /\ loops'[l].i = t
    /\ ~(loops[l].pc = "run" /\ loops[l].i = t)

\* C32: a loop starts a task only when the task is not running and its last_run
\* is unset or at least its interval old; a task whose last execution returned
\* is not started before its interval has passed since that return.
C32_StartedOnlyWhenIdleAndDue ==
    [][\A l \in SchedulerLoops : \A t \in TaskIds :
          Starts(l, t)
          => /\ ~is_running[t]
             /\ last_run[t] = NoRun \/ now - last_run[t] >= tasks[t].interval
             /\ done_how[t] = "returned" => now - done_at[t] >= tasks[t].interval]_vars

\* A task that returned is running again, a full interval after that return
C32_Witness ==
    \E l \in SchedulerLoops : \E t \in TaskIds :
        /\ loops[l].pc = "run" /\ loops[l].i = t
        /\ is_running[t]
        /\ done_how[t] = "returned"
        /\ now - done_at[t] >= tasks[t].interval

----------------------------------------------------------------------------
(* The notifications of one order, checked under SpecFanout *)

\* How many of the first n notifications put into the queue of c are of kind k
PutOfKind(c, k, n) == Cardinality({i \in 1..n : put[c][i].kind = k})

\* C33: in the queue of every connection the notification for the ORDER_CREATED
\* event of an order comes before the notification for the ORDER_UPDATED event
\* its processing publishes: up to every ORDER_UPDATED notification at least as
\* many ORDER_CREATED notifications were put before it.
C33_CreatedBeforeUpdated ==
    \A c \in Conns : \A n \in 1..Len(put[c]) :
        put[c][n].kind = ORDER_UPDATED
            => PutOfKind(c, ORDER_CREATED, n) >= PutOfKind(c, ORDER_UPDATED, n)

----------------------------------------------------------------------------
(* Scheduler coroutines and the handler table over the life cycle, checked  *)
(* under SpecLife                                                           *)

\* The scheduler coroutines that have been created and have not ended
LiveLoops == {l \in SchedulerLoops : loops[l].pc # "off"}

\* C34: at most one scheduler coroutine is live, and a live one is the one
\* task_loop refers to.
C34_OneLiveLoopReferenced ==
    /\ Cardinality(LiveLoops) <= 1
    /\ \A l \in LiveLoops : l = task_loop

----------------------------------------------------------------------------
(* Handlers that stay registered during an emit call, checked under         *)
(* SpecStream                                                               *)

\* How often handler h was invoked by the call of frame f
TimesCalled(f, h) == Cardinality({i \in 1..Len(f.called) : f.called[i] = h})

\* C35: when an emit call reaches its return, every handler that was registered
\* for its kind when the call began and still is has been invoked exactly once
\* by the call, whatever was registered or removed in the meantime.
C35_StayingHandlerInvokedOnce ==
    \A p \in Procs : \A i \in EmitFramesOf(p) :
        LET f == stack[p][i]
        IN  f.phase = "done"
            => \A h \in Range(f.regs) \cap Range(event_handlers[f.event]) :
                   TimesCalled(f, h) = 1

\* How often handler h stands in the list of kind k
TimesRegistered(k, h) ==
    Cardinality({i \in 1..Len(event_handlers[k]) : event_handlers[k][i] = h})

\* C36: whenever the orchestrator is initialized, _handle_order_created stands
\* exactly once in the list of ORDER_CREATED, so that an emit of ORDER_CREATED
\* invokes it once; it never stands there twice.
C36_DefaultHandlerRegisteredOnce ==
    /\ initialized => TimesRegistered(ORDER_CREATED, DefaultHandler) = 1
    /\ TimesRegistered(ORDER_CREATED, DefaultHandler) <= 1

\* The orchestrator is initialized again after a shutdown that went through
\* and reset both flags
C36_Witness ==
    /\ initialized
    /\ default_handlers_registered
    /\ \E r \in WebhookRequests :
           req[r].view = "shutdown" /\ req[r].result = "returned" /\ ~req[r].early

\* A step of a shutdown call, or of the scheduler coroutine it cancelled
ShutdownStep ==
    \/ \E r \in WebhookRequests :
           req[r].view = "shutdown" /\ req[r].pc # "done" /\ req'[r] # req[r]
    \/ \E l \in SchedulerLoops : loops[l].pc = "cancelling" /\ loops'[l].pc = "off"

\* C37: no step of shutdown changes the handler table or the task list; while
\* a shutdown that went through stands returned, the default handler and the
\* task registered before it are still registered, also once the orchestrator
\* has been initialized again; and a task is never left marked as running once
\* the scheduler coroutines are stopped, so the next start-up can start it.
C37_ShutdownKeepsHandlersAndTasks ==
    /\ [][ShutdownStep => event_handlers' = event_handlers /\ tasks' = tasks]_vars
    /\ [](\A r \in WebhookRequests :
             (req[r].view = "shutdown" /\ req[r].result = "returned" /\ ~req[r].early)
                 => /\ DefaultHandler \in Range(event_handlers[ORDER_CREATED])
                    /\ tasks = LifeTasks)
    /\ [](LiveLoops = {} => \A t \in DOMAIN tasks : ~is_running[t])

\* After a shutdown that went through and a re-initialization, the scheduler
\* coroutine of the new start-up runs the task and the default handler is
\* registered
C37_Witness ==
    /\ initialized
    /\ \E r \in WebhookRequests :
           req[r].view = "shutdown" /\ req[r].result = "returned" /\ ~req[r].early
    /\ \E l \in SchedulerLoops : loops[l].pc = "run" /\ l = task_loop
    /\ DefaultHandler \in Range(event_handlers[ORDER_CREATED])

\* C38: a request with topic orders/create that has been answered has status
\* 200 exactly when it published one ORDER_CREATED event, and with any other
\* status it published none.
C38_StatusTellsPublication ==
    \A r \in WebhookRequests :
        (req[r].view = "webhook" /\ req[r].pc = "done" /\ req[r].topic = "orders/create")
            => /\ req[r].status = 200 <=> Len(req[r].published) = 1
               /\ req[r].status # 200 => req[r].published = <<>>

\* C38, the part that holds: an answered request has exactly one status of the five
C38_OneStatusOfFive ==
    \A r \in WebhookRequests :
        (req[r].view = "webhook" /\ req[r].pc = "done")
            => req[r].status \in {200, 400, 401, 503, 500}

\* The frames of _handle_order_created that stand at their return
ReturningHandlers(p) ==
    {i \in 1..Len(stack[p]) : stack[p][i].fn = DefaultHandler /\ stack[p][i].phase = "ret"}

\* The kinds a handler frame has published, in order
KindsPublished(f) == [j \in 1..Len(f.delivered) |-> f.delivered[j].event]

\* C39: the default handler never raises to the bus (no emit call records it
\* among the handlers that raised, so the bus publishes no ERROR event for it);
\* when it returns it has published exactly one ORDER_UPDATED event with status
\* "processed" and no ERROR event for a shopify payload whose raw data has an
\* id, and exactly one ERROR event carrying the order id and no ORDER_UPDATED
\* event for a payload without source or order_id or whose raw data has no id.
C39_DefaultHandlerPublishesOnce ==
    \A p \in Procs :
        /\ \A i \in EmitFramesOf(p) : \A j \in 1..Len(stack[p][i].raised) :
               stack[p][i].raised[j].handler # DefaultHandler
        /\ ~(HasEscaped(stack[p]) /\ outcome[p] = "running")
        /\ \A i \in ReturningHandlers(p) :
               LET f == stack[p][i]
               IN  /\ f.data = GoodOrder =>
                          /\ KindsPublished(f) = <<ORDER_UPDATED>>
                          /\ f.delivered[1].data.status = "processed"
                   /\ f.data \in BadOrders =>
                          /\ KindsPublished(f) = <<ERROR>>
                          /\ f.delivered[1].data.order_id = Get(f.data, "order_id")

====
